---- MODULE Spec2Model ----
(***************************************************************************)
(* Model of the geodata ingestion-and-diagnostics pipeline of              *)
(* chatgis_server: the Format Dispatcher (FileProcessorFactory), the       *)
(* vector and tabular processors, and the error taxonomy / remediation     *)
(* factory (GeoFileErrorFactory).                                          *)
(*                                                                         *)
(* Conventions.  A Python str is a sequence of tokens; the token NL is the *)
(* newline, so "\n".join(parts) is Join(parts) and  `p in s`  for the      *)
(* patterns the code looks for is token membership.  The Chinese literals  *)
(* of the source are written as ASCII tokens (the original is quoted in    *)
(* the comment next to each).  A Python value that the code tests with     *)
(* isinstance is a record: [str |-> tokens] for a str, [gdf |-> ...] for a *)
(* GeoDataFrame, and a dict with a 'status' key for an envelope.  Numbers  *)
(* with decimals are scaled by 100 (116.40 is 11640).                      *)
(***************************************************************************)
EXTENDS Integers, Sequences, FiniteSets, TLC

VARIABLES prjAt, tmpFiles, rq

vars == <<prjAt, tmpFiles, rq>>

\* The requests that can be in flight (each is one coroutine).
Reqs == {"r1", "r2"}

NL == "\n"

(***************************************************************************)
(* Strings                                                                 *)
(***************************************************************************)
Str(tokens) == [str |-> tokens]

IsStr(v) == DOMAIN v = {"str"}

RECURSIVE Join(_)
\* "\n".join(parts): parts is a sequence of token sequences.
Join(parts) ==
    IF parts = <<>> THEN <<>>
    ELSE IF Len(parts) = 1 THEN parts[1]
    ELSE parts[1] \o <<NL>> \o Join(Tail(parts))

Contains(tokens, pat) == \E i \in 1..Len(tokens) : tokens[i] = pat

\* str.lower() on the tokens that have an upper-case form in the model.
LowerTok(t) ==
    CASE t = ".SHP" -> ".shp"
      [] t = ".Csv" -> ".csv"
      [] t = ".XLS" -> ".xls"
      [] t = ".JSON" -> ".json"
      [] t = "No such file" -> "no such file"
      [] t = "Failed to open" -> "failed to open"
      [] t = "ID" -> "id"
      [] t = "FID" -> "fid"
      [] t = "OID" -> "oid"
      [] t = "OBJECTID" -> "objectid"
      [] t = "ObjectID" -> "objectid"
      [] OTHER -> t

Lower(tokens) == [i \in 1..Len(tokens) |-> LowerTok(tokens[i])]

(***************************************************************************)
(* Exceptions: [kind |-> class name, msg |-> str(e) as tokens]             *)
(***************************************************************************)
Exc(kind, msg) == [kind |-> kind, msg |-> msg]

\* The proper base classes of an exception class (Python / pandas / pyproj /
\* pyogrio class hierarchy), Exception itself left out.
Bases(kind) ==
    CASE kind = "FileNotFoundError" -> {"OSError"}
      [] kind = "PermissionError" -> {"OSError"}
      [] kind = "ParserError" -> {"ValueError"}
      [] kind = "EmptyDataError" -> {"ValueError"}
      [] kind = "UnicodeDecodeError" -> {"ValueError"}
      [] kind = "CRSError" -> {"RuntimeError"}
      [] kind = "DataSourceError" -> {"RuntimeError"}
      [] kind = "KeyError" -> {"LookupError"}
      [] kind = "IndexError" -> {"LookupError"}
      [] OTHER -> {}

\* isinstance(e, classes) for a tuple (set) of classes.
IsInstance(e, classes) == (({e.kind} \cup Bases(e.kind)) \cap classes) # {}

(***************************************************************************)
(* Error taxonomy and remediation factory (DataInputErrors.py)             *)
(***************************************************************************)
\* GeoFileErrorFactory.HANDLERS: a dict keyed by ERROR_TYPE, iterated in
\* insertion order.
HANDLERS ==
    << [types |-> {"FileNotFoundError"}, handler |-> "FileNotFoundHandler"],
       [types |-> {"CRSError"}, handler |-> "CRSErrorHandler"],
       [types |-> {"DataSourceError"}, handler |-> "DataSourceErrorHandler"],
       [types |-> {"ParserError", "EmptyDataError"}, handler |-> "CSVReadErrorHandler"],
       [types |-> {"ParserError", "PermissionError"}, handler |-> "ExcelReadErrorHandler"],
       [types |-> {"ValueError"}, handler |-> "ValueErrorHandler"] >>

\* Variant of get_handler: data-source errors are given to the CRS handler.
get_handler_DataSourceAsCRS(e) ==
    IF IsInstance(e, {"CRSError", "DataSourceError"}) THEN "CRSErrorHandler"
    ELSE IF IsInstance(e, {"FileNotFoundError"}) THEN "FileNotFoundHandler"
    ELSE IF IsInstance(e, {"ValueError"}) THEN "ValueErrorHandler"
    ELSE "BaseErrorHandler"

\* GeoFileErrorFactory.get_handler: the first registered handler whose type
\* test matches, the base handler when none does.
get_handler(e) ==
    LET First(hits) == IF hits = {} THEN "BaseErrorHandler"
                       ELSE HANDLERS[CHOOSE i \in hits : \A j \in hits : i <= j].handler
    IN  First({i \in 1..Len(HANDLERS) : IsInstance(e, HANDLERS[i].types)})

\* The section markers of a rendered report:
\*   "■ 错误原因"   "▼ 技术诊断"   "⚙ 修复建议"
MarkCause == "[cause] error cause"
MarkFindings == "[findings] technical diagnosis"
MarkSuggest == "[suggestions] repair suggestions"

\* The causes ("原因") of the diagnoses.
CauseUnknown == "unknown error"                     \* 未知错误
CauseNotFound == "file path does not exist"         \* 文件路径不存在
CauseValue == "important file value error"          \* 文件重要值错误
CauseCRS == "CRS definition abnormal"               \* 坐标系定义异常
CauseCRSRepairFailed == "CRS repair failed"         \* 坐标系修复失败
CauseDataSource == "data source read failed"        \* 数据源读取失败
CauseCSV == "CSV file parse failed"                 \* CSV文件解析失败
CauseExcel == "Excel file read failed"              \* Excel文件读取失败

\* ValueErrorHandler.build_error_info: the reason is found by looking for
\* the digits 1, 2, 3 in the lower-cased message.
ValueErrorInfo(e) ==
    LET error_msg == Lower(e.msg)
    IN  IF Contains(error_msg, "1")
        THEN [cause |-> CauseValue,
              findings |-> << <<"lon/lat fields not detected">> >>,       \* 未检测到经纬度字段
              suggestions |-> << <<"specify column name/index explicitly">> >>]
        ELSE IF Contains(error_msg, "2")
        THEN [cause |-> CauseValue,
              findings |-> << <<"unsupported file type">> >>,             \* 该文件类型是暂不支持的文件类型
              suggestions |-> << <<"upload shp/txt/excel data instead">> >>]
        ELSE IF Contains(error_msg, "3")
        THEN [cause |-> CauseValue,
              findings |-> << <<"cannot identify coordinate fields automatically">> >>,  \* 无法自动识别坐标字段
              suggestions |-> << <<"add or fix the header row">>,
                                 <<"name the longitude column">>,
                                 <<"name the latitude column">> >>]
        ELSE [cause |-> CauseValue,
              findings |-> << error_msg >>,
              suggestions |-> << <<"check that the value is valid">> >>]

\* DataSourceErrorHandler.build_error_info
DataSourceInfo(e) ==
    LET error_msg == Lower(e.msg)
        extra == IF Contains(error_msg, "no such file")
                 THEN << <<"wrong path or special characters">> >>
                 ELSE IF Contains(error_msg, "unrecognized data source")
                 THEN << <<"extension does not match the format">> >>
                 ELSE IF Contains(error_msg, "failed to open")
                 THEN << <<"file in use by another program">>, <<"insufficient permission">> >>
                 ELSE IF Contains(error_msg, ".shx")
                 THEN << <<"shapefile incomplete (.shx missing)">> >>
                 ELSE << <<"unknown data source error">> >>
    IN  [cause |-> CauseDataSource,
         findings |-> <<error_msg>> \o extra,
         suggestions |-> << <<"1. check file completeness">>, <<"2. check encoding">>,
                            <<"3. specify the driver">>, <<"4. open in QGIS">> >>]

\* build_error_info of each handler class.
build_error_info(handler, file_path, e) ==
    CASE handler = "FileNotFoundHandler" ->
            [cause |-> CauseNotFound,
             findings |-> << <<"requested path: ">> \o file_path,
                             <<"system error: ">> \o e.msg,
                             <<"possible causes:">>, <<"1. special characters">>,
                             <<"2. moved or deleted">>, <<"3. wrong relative path">> >>,
             suggestions |-> << <<"1. check the path">>, <<"2. use an absolute path">>,
                                <<"3. verify the file exists">> >>]
      [] handler = "ValueErrorHandler" -> ValueErrorInfo(e)
      [] handler = "CRSErrorHandler" ->
            [cause |-> CauseCRS,
             findings |-> << <<"original error: ">> \o e.msg,
                             <<"possible causes:">>, <<"1. PRJ missing or broken">>,
                             <<"2. non-standard EPSG code">>, <<"3. projection not set on export">> >>,
             suggestions |-> << <<"attempting automatic repair">> >>]   \* 正在尝试进行自动修复……
      [] handler = "DataSourceErrorHandler" -> DataSourceInfo(e)
      [] handler = "CSVReadErrorHandler" ->
            [cause |-> CauseCSV,
             findings |-> << <<"error type: ", e.kind>>, <<"detail: ">> \o e.msg >>,
             suggestions |-> << <<"1. check encoding">>, <<"2. check for corruption">>,
                                <<"3. check the separator">> >>]
      [] handler = "ExcelReadErrorHandler" ->
            [cause |-> CauseExcel,
             findings |-> << <<"error type: ", e.kind>>, <<"detail: ">> \o e.msg >>,
             suggestions |-> << <<"1. close other programs">>, <<"2. check Excel version">>,
                                <<"3. change permissions">> >>]
      [] OTHER ->
            [cause |-> CauseUnknown,
             findings |-> << <<"original error: ">> \o e.msg >>,
             suggestions |-> << >>]

\* The three sections joined by newlines (BaseErrorHandler.format_response,
\* lines 46-51; the same layout is built by CRSErrorHandler.format_response).
RenderSections(info) ==
    Join(<< <<MarkCause, NL, info.cause>>,
            <<MarkFindings, NL>> \o Join(info.findings),
            <<MarkSuggest, NL>> \o Join(info.suggestions) >>)

\* Variant of CRSRepairFailedInfo: the first error is not reported.
CRSRepairFailedInfo_RetryOnly(e, read_error) ==
    [cause |-> CauseCRSRepairFailed,
     findings |-> << <<"error after removing PRJ: ">> \o read_error.msg,
                     <<"possible causes:">>, <<"1. abnormal coordinate values">>,
                     <<"2. damaged geometry">>, <<"3. CRS must be given by hand">> >>,
     suggestions |-> << <<"force a CRS parameter">> >>]

\* The terminal diagnosis of the CRS handler (lines 154-178).
CRSRepairFailedInfo(e, read_error) ==
    [cause |-> CauseCRSRepairFailed,
     findings |-> << <<"first error: ">> \o e.msg,                 \* 初次错误
                     <<"error after removing PRJ: ">> \o read_error.msg,   \* 移除PRJ后错误
                     <<"possible causes:">>, <<"1. abnormal coordinate values">>,
                     <<"2. damaged geometry">>, <<"3. CRS must be given by hand">> >>,
     suggestions |-> << <<"force a CRS parameter">>, <<"steps:">>,
                        <<"1. inspect the coordinate range">>,
                        <<"2. guess the CRS from the data source">>,
                        <<"3. redefine the projection in QGIS">> >>]


(***************************************************************************)
(* Datasets.  A column is [name, dtype, vals]; a value is one of           *)
(*   [num |-> n]  [str |-> s]  [date |-> d]  [bin |-> b]  [na |-> TRUE]    *)
(***************************************************************************)
Num(n) == [num |-> n]
S(s) == [str |-> s]
Date(d) == [date |-> d]
NA == [na |-> TRUE]

IsNum(v) == DOMAIN v = {"num"}
IsS(v) == DOMAIN v = {"str"}
IsDate(v) == DOMAIN v = {"date"}
IsNA(v) == DOMAIN v = {"na"}

Col(name, dtype, vals) == [name |-> name, dtype |-> dtype, vals |-> vals]

\* Series.dropna()
dropna(vals) == SelectSeq(vals, LAMBDA v : ~IsNA(v))

RECURSIVE unique(_)
\* Series.unique(): the distinct values in order of first appearance.
unique(vals) ==
    LET Add(init, last) ==
            IF \E i \in 1..Len(init) : init[i] = last THEN init ELSE Append(init, last)
    IN  IF vals = <<>> THEN <<>>
        ELSE Add(unique(SubSeq(vals, 1, Len(vals) - 1)), vals[Len(vals)])

\* The numbers of a column (NaN skipped, as Series.min/max/mean do).
Nums(vals) == {vals[i].num : i \in {j \in 1..Len(vals) : IsNum(vals[j])}}

RECURSIVE SumNums(_)
SumNums(vals) ==
    IF vals = <<>> THEN 0
    ELSE (IF IsNum(vals[1]) THEN vals[1].num ELSE 0) + SumNums(Tail(vals))

\* Series.min() / max() / mean() of a numeric column: a [num |-> n], or NA
\* (NaN) when there is no number to take it of.
SeriesMin(vals) ==
    IF Nums(vals) = {} THEN NA
    ELSE Num(CHOOSE m \in Nums(vals) : \A x \in Nums(vals) : m <= x)

SeriesMax(vals) ==
    IF Nums(vals) = {} THEN NA
    ELSE Num(CHOOSE m \in Nums(vals) : \A x \in Nums(vals) : m >= x)

SeriesMean(vals) ==
    IF Nums(vals) = {} THEN NA ELSE Num(SumNums(vals) \div Len(dropna(vals)))

\* The dates of a column.
Dates(vals) == {vals[i].date : i \in {j \in 1..Len(vals) : IsDate(vals[j])}}

\* len(sample.encode('utf-8')) of the strings of the model.
ByteLen(s) == IF s = "LONGTEXT" THEN 300 ELSE 4

TextByteLimit == 254
ShortMin == -32768
ShortMax == 32767

\* Python raise / return: an operator that can raise yields [exc |-> e],
\* otherwise [ok |-> value].
Raise(e) == [exc |-> e]
Ok(v) == [ok |-> v]
Raised(r) == "exc" \in DOMAIN r

\* classify_field_type(dtype, data) of GeoFile/Tools/DataInputTools.py, the
\* classifier imported by both processors.
classify_field_type(dtype, vals) ==
    IF dtype \in {"float64", "float32"}
    THEN Ok(IF dtype = "float32" THEN "Float" ELSE "Double")
    ELSE IF dtype = "int64"
    THEN \* min()/max() of an empty column is NaN and every comparison with
         \* NaN is False
         IF Nums(vals) # {} /\ ShortMin <= SeriesMin(vals).num
                            /\ SeriesMax(vals).num <= ShortMax
         THEN Ok("Short Integer")
         ELSE Ok("Long Integer")
    ELSE IF dtype = "datetime64"
    THEN Ok("Date")
    ELSE IF vals = <<>>
    THEN Raise(Exc("IndexError", <<"single positional indexer is out-of-bounds">>))   \* data.iloc[0]
    ELSE IF IsDate(vals[1])
    THEN Ok("Date")
    ELSE IF dtype = "object"
    THEN IF dropna(vals) = <<>>
         THEN Raise(Exc("IndexError", <<"single positional indexer is out-of-bounds">>))
         ELSE LET sample == dropna(vals)[1]
              IN  IF IsS(sample) /\ ByteLen(sample.str) < TextByteLimit
                  THEN Ok("Text")
                  ELSE Ok("BLOB")
    ELSE Ok("Unknown")

NumericTypes == {"Float", "Double", "Short Integer", "Long Integer"}

\* A dict without keys (stats = {}).
EmptyDict == [k \in {} |-> {}]

HasKey(d, k) == k \in DOMAIN d

\* The numeric stats block; np is the numpy scalar type of min and max,
\* which decides whether json.dumps can serialise the block.
NumericStats(field_type, col) ==
    [type |-> field_type, min |-> SeriesMin(col.vals), max |-> SeriesMax(col.vals),
     mean |-> SeriesMean(col.vals),
     np |-> IF Nums(col.vals) = {} THEN "float64" ELSE col.dtype]

\* The text stats block; the sample values are kept up to `limit` distinct
\* values (3 in the tabular processor, 5 in the vector processor).
TextStats(col, limit) ==
    LET Block(unique_values) ==
            [type |-> "Text", unique_count |-> Len(unique_values),
             sample_values |-> IF Len(unique_values) <= limit
                               THEN SubSeq(unique_values, 1, Len(unique_values))
                               ELSE <<>>,
             has_samples |-> Len(unique_values) <= limit]
    IN  Block(unique(dropna(col.vals)))

\* The date stats block: min()/max() formatted with strftime.  min() of an
\* all-NaT column is NaT, which has no strftime; min() of an object column
\* that mixes datetimes with other values cannot compare them.
DateStats(col) ==
    IF col.dtype = "object" /\ \E i \in 1..Len(col.vals) : ~IsDate(col.vals[i])
    THEN Raise(Exc("TypeError", <<"not supported between instances">>))
    ELSE IF Dates(col.vals) = {}
    THEN Raise(Exc("ValueError", <<"NaTType does not support strftime">>))
    ELSE Ok([type |-> "Date",
             min |-> CHOOSE m \in Dates(col.vals) : \A x \in Dates(col.vals) : m <= x,
             max |-> CHOOSE m \in Dates(col.vals) : \A x \in Dates(col.vals) : m >= x])

\* json.dumps of a stats block: numpy int64 and float32 scalars are not JSON
\* serialisable (float64 is a Python float).
JsonSerializable(stats) ==
    ~(HasKey(stats, "np") /\ stats.np \in {"int64", "float32"})

\* str() of a numpy scalar: a number or nan
Fmt(x) == IF IsNA(x) THEN "nan" ELSE ToString(x.num)

\* The text of one value.
ValText(v) ==
    IF IsS(v) THEN v.str ELSE IF IsNum(v) THEN ToString(v.num)
    ELSE IF IsDate(v) THEN ToString(v.date) ELSE "?"


(***************************************************************************)
(* Vector processor: ShpProcessor.process (DataInputProcessor.py 62-182)   *)
(* A GeoDataFrame is [crs, geometry_type, bounds, n, cols]; bounds is      *)
(* total_bounds = <<minx, miny, maxx, maxy>>.                              *)
(***************************************************************************)
VectorSampleLimit == 5
TabularSampleLimit == 3

\* os.path.basename / the path as text
PathText(path) == <<path.file, path.ext>>

\* One pass of the field loop (lines 92-134) over column col.
ShpColumn(col, n, acc) ==
    LET Field(stats) == Ok([acc EXCEPT !.fields = Append(@, [name |-> col.name, stats |-> stats])])
        Dated(ds) == IF Raised(ds) THEN ds ELSE Field(ds.ok)
        Typed(ft) ==
            IF Raised(ft) THEN ft
            ELSE IF ft.ok \in NumericTypes THEN Field(NumericStats(ft.ok, col))
            ELSE IF ft.ok = "Text" THEN Field(TextStats(col, VectorSampleLimit))
            ELSE IF ft.ok = "Date" THEN Dated(DateStats(col))
            ELSE IF LowerTok(col.name) \in {"fid", "objectid"}
            THEN Ok([acc EXCEPT !.ObjectID =
                        Append(@, [type |-> "Long Integer",
                                   count |-> Len(unique(col.vals))])])
            ELSE Field(EmptyDict)
    IN  IF col.name = "geometry"
        THEN Ok([acc EXCEPT !.Geometry = Append(@, [type |-> "Geometry", count |-> n])])
        ELSE Typed(classify_field_type(col.dtype, col.vals))

RECURSIVE ShpLoop(_, _, _)
ShpLoop(cols, n, acc) ==
    LET Continue(r) == IF Raised(r) THEN r ELSE ShpLoop(Tail(cols), n, r.ok)
    IN  IF cols = <<>> THEN Ok(acc) ELSE Continue(ShpColumn(cols[1], n, acc))

\* Variant of FieldLine: the values of a text field are listed only below
\* the threshold, not at it.
FieldLine_Strict(f, limit) ==
    IF ~HasKey(f.stats, "type")
    THEN Raise(Exc("KeyError", <<"type">>))
    ELSE IF f.stats.type \in NumericTypes
    THEN Ok(<< <<"numeric field", f.name, f.stats.type, "mean", Fmt(f.stats.mean),
                 "max", Fmt(f.stats.max), "min", Fmt(f.stats.min)>> >>)
    ELSE IF f.stats.type = "Text"
    THEN IF f.stats.unique_count < limit
         THEN Ok(<< <<"text field", f.name, "values">>
                    \o [i \in 1..Len(f.stats.sample_values) |-> ValText(f.stats.sample_values[i])] >>)
         ELSE Ok(<< <<"text field", f.name, "unique count", ToString(f.stats.unique_count)>> >>)
    ELSE IF f.stats.type = "Date"
    THEN Ok(<< <<"date field", f.name, "range", ToString(f.stats.min), "to",
                 ToString(f.stats.max)>> >>)
    ELSE Ok(<< >>)

\* Variant of FieldLine: an entry without a type (stats.get('type')) gets
\* no line instead of raising.
FieldLine_Tolerant(f, limit) ==
    IF ~HasKey(f.stats, "type")
    THEN Ok(<< >>)
    ELSE IF f.stats.type \in NumericTypes
    THEN Ok(<< <<"numeric field", f.name, f.stats.type, "mean", Fmt(f.stats.mean),
                 "max", Fmt(f.stats.max), "min", Fmt(f.stats.min)>> >>)
    ELSE IF f.stats.type = "Text"
    THEN IF f.stats.unique_count <= limit
         THEN Ok(<< <<"text field", f.name, "values">>
                    \o [i \in 1..Len(f.stats.sample_values) |-> ValText(f.stats.sample_values[i])] >>)
         ELSE Ok(<< <<"text field", f.name, "unique count", ToString(f.stats.unique_count)>> >>)
    ELSE IF f.stats.type = "Date"
    THEN Ok(<< <<"date field", f.name, "range", ToString(f.stats.min), "to",
                 ToString(f.stats.max)>> >>)
    ELSE Ok(<< >>)

\* One line of the field report (lines 151-166 and 387-402); limit is the
\* text threshold of the processor.
FieldLine(f, limit) ==
    IF ~HasKey(f.stats, "type")
    THEN Raise(Exc("KeyError", <<"type">>))
    ELSE IF f.stats.type \in NumericTypes
    THEN Ok(<< <<"numeric field", f.name, f.stats.type, "mean", Fmt(f.stats.mean),
                 "max", Fmt(f.stats.max), "min", Fmt(f.stats.min)>> >>)
    ELSE IF f.stats.type = "Text"
    THEN IF f.stats.unique_count <= limit
         THEN Ok(<< <<"text field", f.name, "values">>
                    \o [i \in 1..Len(f.stats.sample_values) |-> ValText(f.stats.sample_values[i])] >>)
         ELSE Ok(<< <<"text field", f.name, "unique count", ToString(f.stats.unique_count)>> >>)
    ELSE IF f.stats.type = "Date"
    THEN Ok(<< <<"date field", f.name, "range", ToString(f.stats.min), "to",
                 ToString(f.stats.max)>> >>)
    ELSE Ok(<< >>)

RECURSIVE FieldLines(_, _)
\* The lines of all fields, or the first exception raised while rendering.
FieldLines(fields, limit) ==
    LET Both(r, rest) == IF Raised(rest) THEN rest ELSE Ok(r.ok \o rest.ok)
        Continue(r) == IF Raised(r) THEN r ELSE Both(r, FieldLines(Tail(fields), limit))
    IN  IF fields = <<>> THEN Ok(<< >>) ELSE Continue(FieldLine(fields[1], limit))

\* Lines 168-173: one line per special-field entry, group by group.
ShpSpecialLines(attrs) ==
    [i \in 1..Len(attrs.Geometry) |->
        <<"system field", "Geometry", attrs.Geometry[i].type, ToString(attrs.Geometry[i].count)>>]
    \o [i \in 1..Len(attrs.ObjectID) |->
        <<"system field", "ObjectID", attrs.ObjectID[i].type, ToString(attrs.ObjectID[i].count)>>]

\* The token that introduces the reference system in the report ("坐标系：").
CrsLabel == "crs:"

\* ShpProcessor.process up to the send of line 177: the summary and the
\* report text, or the exception raised on the way (with the stages run).
ShpBuild(path, gdf) ==
    LET Rendered(loop, lines) ==
            IF Raised(lines)
            THEN [exc |-> lines.exc, stages |-> <<"classify", "summarize", "report">>]
            ELSE [ok |-> [summary |-> [crs |-> gdf.crs, attributes |-> loop.ok],
                          result_msg |->
                             Join(<< <<"geodata processed:">> \o PathText(path),
                                     <<"file type:", "SHP">>,
                                     <<CrsLabel, gdf.crs>>,
                                     <<"geometry type:">> \o gdf.geometry_type,
                                     <<"total features:", ToString(gdf.n)>>,
                                     <<"lon:", Fmt(gdf.bounds[1]), "~", Fmt(gdf.bounds[3])>>,
                                     <<"lat:", Fmt(gdf.bounds[2]), "~", Fmt(gdf.bounds[4])>>,
                                     <<"attribute fields:">> >>
                                  \o lines.ok \o ShpSpecialLines(loop.ok))],
                  stages |-> <<"classify", "summarize", "report">>]
        Looped(loop) ==
            IF Raised(loop) THEN [exc |-> loop.exc, stages |-> <<"classify">>]
            ELSE Rendered(loop, FieldLines(loop.ok.fields, VectorSampleLimit))
    IN  Looped(ShpLoop(gdf.cols, gdf.n,
                       [fields |-> << >>, Geometry |-> << >>, GUID |-> << >>, ObjectID |-> << >>]))

\* json.dumps(summary) of line 180 (evaluated for the log message).
ShpJsonOk(summary) ==
    \A i \in 1..Len(summary.attributes.fields) :
        JsonSerializable(summary.attributes.fields[i].stats)


(***************************************************************************)
(* Tabular processor: TabularProcessor (DataInputProcessor.py 185-416)     *)
(* A DataFrame is [cols, n].  A column reference (self.lon_col) is         *)
(*   [name |-> label]   [idx |-> i]   or None.                             *)
(***************************************************************************)
None == [none |-> TRUE]
Name(l) == [name |-> l]
Idx(i) == [idx |-> i]

IsNone(r) == DOMAIN r = {"none"}
IsName(r) == DOMAIN r = {"name"}
IsIdx(r) == DOMAIN r = {"idx"}

\* Python truth value of a column reference (the operand of `or`).
Truthy(r) == IF IsNone(r) THEN FALSE ELSE IF IsIdx(r) THEN r.idx # 0 ELSE r.name # ""

\* label matches the regular expression '^Unnamed'
IsUnnamed(l) == l \in {"Unnamed: 0", "Unnamed: 1", "Unnamed: 2", "Unnamed: 3"}

\* str.isdigit() and int() of a label
IsDigit(l) == l \in {"0", "1", "2", "3", "4", "5"}

IntOf(l) ==
    CASE l = "0" -> 0 [] l = "1" -> 1 [] l = "2" -> 2
      [] l = "3" -> 3 [] l = "4" -> 4 [] l = "5" -> 5

\* `label in df.columns`
HasLabel(df, l) == \E i \in 1..Len(df.cols) : df.cols[i].name = l

\* df[ref]: the position of the column a reference selects, 0 for a
\* KeyError.  The labels read from a file are strings, so an integer
\* reference selects nothing.
Locate(df, ref) ==
    IF IsName(ref) /\ HasLabel(df, ref.name)
    THEN CHOOSE i \in 1..Len(df.cols) : df.cols[i].name = ref.name
    ELSE 0

\* auto_detect_map of detect_col (lines 209-212):
\*   lon: 经度 longitude lon x X      lat: 纬度 latitude lat y Y
auto_detect_map(target_type) ==
    IF target_type = "lon" THEN <<"jingdu", "longitude", "lon", "x", "X">>
    ELSE <<"weidu", "latitude", "lat", "y", "Y">>

\* TabularProcessor.detect_col
detect_col(df, header_mode, col_attr, target_type) ==
    LET Pick(cands, hits) ==
            IF hits # {}
            THEN Name(cands[CHOOSE i \in hits : \A j \in hits : i <= j])
            ELSE IF ~header_mode
            THEN (IF target_type = "lon" THEN Idx(0) ELSE Idx(1))
            ELSE None
    IN  IF ~IsNone(col_attr) THEN col_attr
        ELSE Pick(auto_detect_map(target_type),
                  {i \in 1..Len(auto_detect_map(target_type)) :
                      HasLabel(df, auto_detect_map(target_type)[i])})

\* a `or` b
PyOr(a, b) == IF Truthy(a) THEN a ELSE b

\* CHINA_LON_RANGE and CHINA_LAT_RANGE (lines 251-252), scaled by 100.
ChinaLonMin == 7366
ChinaLonMax == 13505
ChinaLatMin == 1815
ChinaLatMax == 5355

\* The number of values of vals inside [lo, hi] (NaN is never inside).
InRange(vals, lo, hi) ==
    Cardinality({i \in 1..Len(vals) : IsNum(vals[i]) /\ lo <= vals[i].num /\ vals[i].num <= hi})

\* data.between(lo, hi).mean() > 0.95 ; the mean of no value is NaN.
Qualifies(vals, lo, hi) ==
    Len(vals) > 0 /\ InRange(vals, lo, hi) * 100 > 95 * Len(vals)

ColOf(df, l) == df.cols[CHOOSE i \in 1..Len(df.cols) : df.cols[i].name = l]

\* df.select_dtypes(include=['number']).columns.tolist()
numeric_cols(df) ==
    LET Names(idx) == [k \in 1..Len(idx) |-> df.cols[idx[k]].name]
    IN  Names(SelectSeq([i \in 1..Len(df.cols) |-> i],
                        LAMBDA i : df.cols[i].dtype \in {"int64", "float64", "float32"}))

\* is_adjacent of lines 260-264 for two string labels.
is_adjacent(col1, col2) ==
    IsDigit(col2) /\ IsDigit(col1) /\ IntOf(col2) = IntOf(col1) + 1

RECURSIVE candidate_pairs(_, _, _)
\* The loop of lines 256-283 from position i on: the pairs <<lon, lat>>.
candidate_pairs(df, nc, i) ==
    LET Pairs(col1, col2, col1_data, col2_data, rest) ==
            IF ~is_adjacent(col1, col2) THEN rest
            ELSE IF Qualifies(col1_data, ChinaLonMin, ChinaLonMax)
                    /\ Qualifies(col2_data, ChinaLatMin, ChinaLatMax)
            THEN << <<col1, col2>> >> \o rest
            ELSE IF Qualifies(col1_data, ChinaLatMin, ChinaLatMax)
                    /\ Qualifies(col2_data, ChinaLonMin, ChinaLonMax)
            THEN << <<col2, col1>> >> \o rest
            ELSE rest
    IN  IF i > Len(nc) - 1 THEN << >>
        ELSE Pairs(nc[i], nc[i + 1], dropna(ColOf(df, nc[i]).vals),
                   dropna(ColOf(df, nc[i + 1]).vals), candidate_pairs(df, nc, i + 1))

\* The key of max() in lines 288-291, times the row count: the in-range
\* counts over all rows of the two columns (missing values included in the
\* denominator, which is the same for every pair).
PairKey(df, pair) ==
    InRange(ColOf(df, pair[1]).vals, ChinaLonMin, ChinaLonMax)
    + InRange(ColOf(df, pair[2]).vals, ChinaLatMin, ChinaLatMax)

\* max(candidate_pairs, key=...): the first pair with the largest key.
best_pair(df, pairs) ==
    LET Key(i) == PairKey(df, pairs[i])
    IN  pairs[CHOOSE i \in 1..Len(pairs) :
                /\ \A j \in 1..Len(pairs) : Key(j) <= Key(i)
                /\ \A j \in 1..(i - 1) : Key(j) < Key(i)]

\* Strings that pd.to_numeric parses, and their values (scaled by 100).
IsNumStr(s) == s \in {"116.4", "39.9", "7"}

NumOfStr(s) == CASE s = "116.4" -> 11640 [] s = "39.9" -> 3990 [] s = "7" -> 700

\* pd.to_numeric(series): the converted column, or the exception.
to_numeric(col) ==
    IF col.dtype \in {"int64", "float64", "float32", "bool"} THEN Ok(col)
    ELSE IF col.dtype = "datetime64"
    THEN Ok([col EXCEPT !.dtype = "int64",
                        !.vals = [i \in 1..Len(col.vals) |->
                                    IF IsDate(col.vals[i]) THEN Num(col.vals[i].date) ELSE NA]])
    ELSE IF \E i \in 1..Len(col.vals) : IsDate(col.vals[i])
    THEN Raise(Exc("TypeError", <<"Invalid object type">>))
    ELSE IF \E i \in 1..Len(col.vals) : IsS(col.vals[i]) /\ ~IsNumStr(col.vals[i].str)
    THEN Raise(Exc("ValueError", <<"Unable to parse string">>))
    ELSE Ok([col EXCEPT !.dtype = "float64",
                        !.vals = [i \in 1..Len(col.vals) |->
                                    IF IsS(col.vals[i]) THEN Num(NumOfStr(col.vals[i].str))
                                    ELSE col.vals[i]]])


\* header_mode of line 240: some label does not look auto-generated.
HeaderMode(df) == ~(\A i \in 1..Len(df.cols) : IsUnnamed(df.cols[i].name))

\* Lines 239-243: the references after the explicit / name-matching /
\* headerless stages.
StageNames(df, lon_col, lat_col) ==
    LET Detect(hm) ==
            [lon |-> PyOr(detect_col(df, hm, lon_col, "lon"), IF ~hm THEN Idx(0) ELSE None),
             lat |-> PyOr(detect_col(df, hm, lat_col, "lat"), IF ~hm THEN Idx(1) ELSE None)]
    IN  IF IsNone(lon_col) \/ IsNone(lat_col)
        THEN Detect(HeaderMode(df))
        ELSE [lon |-> lon_col, lat |-> lat_col]

\* Lines 246-297: the statistical pairing, entered when a reference is
\* still None; found is FALSE when the candidate set is empty.
StagePairing(df, refs) ==
    LET Best(pair) == [lon |-> Name(pair[1]), lat |-> Name(pair[2]),
                       found |-> TRUE, paired |-> TRUE]
        Choose(pairs) ==
            IF pairs # << >> THEN Best(best_pair(df, pairs))
            ELSE [lon |-> refs.lon, lat |-> refs.lat, found |-> FALSE, paired |-> TRUE]
    IN  IF IsNone(refs.lon) \/ IsNone(refs.lat)
        THEN Choose(candidate_pairs(df, numeric_cols(df), 1))
        ELSE [lon |-> refs.lon, lat |-> refs.lat, found |-> TRUE, paired |-> FALSE]

\* "无法自动识别坐标字段，请手动指定lon_col和lat_col参数" (line 295)
MsgUndetectable == <<"cannot identify coordinate fields automatically, specify lon_col and lat_col">>

\* f"{col_type}字段 {col} 包含非数值数据" (line 306)
RefText(ref) == IF IsName(ref) THEN ref.name ELSE IF IsIdx(ref) THEN ToString(ref.idx) ELSE "None"

MsgNonNumeric(col_type, ref) == <<col_type, "field", RefText(ref), "contains non-numeric data">>

\* Variant of ValidateCol: a column that cannot be converted is kept as it
\* is and the loop goes on.
ValidateCol_Unchecked(df, ref, col_type) ==
    LET Converted(pos, conv) ==
            IF Raised(conv) THEN Ok(df) ELSE Ok([df EXCEPT !.cols[pos] = conv.ok])
        Located(pos) ==
            IF pos = 0 THEN [soft |-> MsgNonNumeric(col_type, ref)]
            ELSE Converted(pos, to_numeric(df.cols[pos]))
    IN  IF IsNone(ref) THEN Raise(Exc("ValueError", <<"1">>))
        ELSE Located(Locate(df, ref))

\* One pass of the validation loop (lines 299-308): df with the column
\* replaced by its numeric form, a ValueError("1") for a None reference, or
\* the message of the error that the bare except turns every failure of
\* df[col] = pd.to_numeric(df[col]) into.
ValidateCol(df, ref, col_type) ==
    LET Converted(pos, conv) ==
            IF Raised(conv) THEN [soft |-> MsgNonNumeric(col_type, ref)]
            ELSE Ok([df EXCEPT !.cols[pos] = conv.ok])
        Located(pos) ==
            IF pos = 0 THEN [soft |-> MsgNonNumeric(col_type, ref)]
            ELSE Converted(pos, to_numeric(df.cols[pos]))
    IN  IF IsNone(ref) THEN Raise(Exc("ValueError", <<"1">>))
        ELSE Located(Locate(df, ref))

\* One pass of the field loop (lines 330-370) over column col.
TabColumn(col, acc) ==
    LET Field(stats) == Ok([acc EXCEPT !.fields = Append(@, [name |-> col.name, stats |-> stats])])
        Dated(ds) == IF Raised(ds) THEN ds ELSE Field(ds.ok)
        Typed(ft) ==
            IF Raised(ft) THEN ft
            ELSE IF ft.ok \in NumericTypes THEN Field(NumericStats(ft.ok, col))
            ELSE IF ft.ok = "Date" THEN Dated(DateStats(col))
            ELSE IF ft.ok = "Text" THEN Field(TextStats(col, TabularSampleLimit))
            ELSE IF LowerTok(col.name) \in {"id", "fid", "oid"}
            THEN Ok([acc EXCEPT !.system_fields =
                        Append(@, [name |-> col.name,
                                   type |-> IF ft.ok \in {"Short Integer", "Long Integer"}
                                            THEN "Long Integer" ELSE ft.ok,
                                   count |-> Len(unique(col.vals))])])
            ELSE Field(EmptyDict)
    IN  Typed(classify_field_type(col.dtype, col.vals))

RECURSIVE TabLoop_NoSkip(_, _, _, _)
\* Variant of TabLoop: the loop has no test for the coordinate columns.
TabLoop_NoSkip(cols, lon, lat, acc) ==
    LET Continue(r) == IF Raised(r) THEN r ELSE TabLoop_NoSkip(Tail(cols), lon, lat, r.ok)
    IN  IF cols = <<>> THEN Ok(acc)
        ELSE Continue(TabColumn(cols[1], acc))

RECURSIVE TabLoop(_, _, _, _)
\* for col in self.df.columns, skipping the two coordinate columns.
TabLoop(cols, lon, lat, acc) ==
    LET Continue(r) == IF Raised(r) THEN r ELSE TabLoop(Tail(cols), lon, lat, r.ok)
    IN  IF cols = <<>> THEN Ok(acc)
        ELSE IF Name(cols[1].name) \in {lon, lat}
        THEN TabLoop(Tail(cols), lon, lat, acc)
        ELSE Continue(TabColumn(cols[1], acc))

\* Lines 404-408.
TabSystemLines(attrs) ==
    [i \in 1..Len(attrs.system_fields) |->
        <<"system field", attrs.system_fields[i].name, attrs.system_fields[i].type,
          ToString(attrs.system_fields[i].count)>>]

\* file_ext.strip('.').upper() of the supported tabular extensions.
FileTypeText(ext) ==
    CASE ext = ".csv" -> "CSV" [] ext = ".txt" -> "TXT" [] ext = ".xlsx" -> "XLSX"
      [] ext = ".xls" -> "XLS" [] OTHER -> ext

\* TabularProcessor.core from the coordinate detection (line 238) to the
\* first await: one of
\*   [soft |-> err_msg]   the message core sends and returns through error()
\*   [exc |-> e]          an exception raised
\*   [ok |-> ...]         the analysis and the report text, ready to be sent
\* each with the stages that were run.
TabBuild(path, file_ext, df0, lon_col, lat_col) ==
    LET Tag(r, refs, st) == r @@ [stages |-> st, lon |-> refs.lon, lat |-> refs.lat]
        \* lines 311-327: the coordinate range of the analysis
        Range(lonc, latc) ==
            [min_lon |-> SeriesMin(lonc.vals), max_lon |-> SeriesMax(lonc.vals),
             min_lat |-> SeriesMin(latc.vals), max_lat |-> SeriesMax(latc.vals),
             np_lon |-> IF Nums(lonc.vals) = {} THEN "float64" ELSE lonc.dtype,
             np_lat |-> IF Nums(latc.vals) = {} THEN "float64" ELSE latc.dtype]
        \* lines 373-408: the report text
        Report(df, range, loop, lines) ==
            [analysis |-> [coordinates_range |-> range, attributes |-> loop.ok],
             result_msg |->
                Join(<< <<"geodata processed:">> \o PathText(path),
                        <<"file type:", FileTypeText(file_ext)>>,
                        <<"total points:", ToString(df.n)>>,
                        <<"lon:", Fmt(range.min_lon), "~", Fmt(range.max_lon)>>,
                        <<"lat:", Fmt(range.min_lat), "~", Fmt(range.max_lat)>>,
                        <<"attribute fields:">> >>
                     \o lines.ok \o TabSystemLines(loop.ok))]
        Rendered(refs, df, range, loop, lines) ==
            IF Raised(lines)
            THEN Tag([exc |-> lines.exc], refs,
                     <<"infer", "validate", "classify", "summarize", "report">>)
            ELSE Tag([ok |-> Report(df, range, loop, lines)], refs,
                     <<"infer", "validate", "classify", "summarize", "report">>)
        \* lines 330-370: the field loop
        Looped(refs, df, loop) ==
            IF Raised(loop)
            THEN Tag([exc |-> loop.exc], refs, <<"infer", "validate", "classify">>)
            ELSE Rendered(refs, df,
                          Range(df.cols[Locate(df, refs.lon)], df.cols[Locate(df, refs.lat)]),
                          loop, FieldLines(loop.ok.fields, TabularSampleLimit))
        \* lines 299-308: the validation loop over the two references
        Validated(refs, v2) ==
            IF "ok" \notin DOMAIN v2 THEN Tag(v2, refs, <<"infer", "validate">>)
            ELSE Looped(refs, v2.ok,
                        TabLoop(v2.ok.cols, refs.lon, refs.lat,
                                [fields |-> << >>, system_fields |-> << >>]))
        First(refs, v1) ==
            Validated(refs, IF "ok" \in DOMAIN v1
                            THEN ValidateCol(v1.ok, refs.lat, "latitude") ELSE v1)
        Inferred(refs) ==
            IF ~refs.found THEN Tag([soft |-> MsgUndetectable], refs, <<"infer">>)
            ELSE First(refs, ValidateCol(df0, refs.lon, "longitude"))
    IN  Inferred(StagePairing(df0, StageNames(df0, lon_col, lat_col)))

\* json.dumps(analysis) of line 414 (evaluated for the log message).
TabJsonOk(analysis) ==
    /\ analysis.coordinates_range.np_lon \notin {"int64", "float32"}
    /\ analysis.coordinates_range.np_lat \notin {"int64", "float32"}
    /\ \A i \in 1..Len(analysis.attributes.fields) :
          JsonSerializable(analysis.attributes.fields[i].stats)


(***************************************************************************)
(* The files on disk.  What a read yields is a property of the file, not   *)
(* of the program: each file of the catalogue fixes it.                    *)
(***************************************************************************)
Geometry == Col("geometry", "geometry", << >>)

GdfRoads ==
    [geometry_type |-> <<"LineString">>, n |-> 2,
     bounds |-> <<Num(11640), Num(3120), Num(12150), Num(3990)>>,
     cols |-> << Col("name", "object", <<S("A"), S("B")>>),
                 Col("len", "float64", <<Num(150), Num(275)>>), Geometry >>]

GdfStations ==
    [geometry_type |-> <<"Point">>, n |-> 3,
     bounds |-> <<Num(11640), Num(3120), Num(12150), Num(3990)>>,
     cols |-> << Col("kind", "object", <<S("A"), S("B"), S("A")>>), Geometry >>]

GdfCounts ==
    [geometry_type |-> <<"Polygon">>, n |-> 2,
     bounds |-> <<Num(11640), Num(3120), Num(12150), Num(3990)>>,
     cols |-> << Col("FID", "int64", <<Num(0), Num(1)>>),
                 Col("pop", "int64", <<Num(40000), Num(12)>>), Geometry >>]

GdfBlobby ==
    [geometry_type |-> <<"Point">>, n |-> 1,
     bounds |-> <<Num(11640), Num(3990), Num(11640), Num(3990)>>,
     cols |-> << Col("note", "object", <<S("LONGTEXT")>>), Geometry >>]

VecFiles == {"roads", "stations", "broken", "nowhere", "noshx", "counts", "blobby", "crsdata"}

\* exists: the .shp exists; hasPrj: a .prj sidecar exists initially;
\* prjBad: reading with the sidecar in place raises a CRSError;
\* data: what a read yields otherwise.
VecFile(f) ==
    CASE f = "roads" -> [exists |-> TRUE, hasPrj |-> TRUE, prjBad |-> FALSE, data |-> Ok(GdfRoads)]
      [] f = "stations" -> [exists |-> TRUE, hasPrj |-> TRUE, prjBad |-> TRUE, data |-> Ok(GdfStations)]
      [] f = "broken" -> [exists |-> TRUE, hasPrj |-> TRUE, prjBad |-> TRUE,
                          data |-> Raise(Exc("DataSourceError", <<"Failed to open", "dataset">>))]
      [] f = "nowhere" -> [exists |-> FALSE, hasPrj |-> FALSE, prjBad |-> FALSE,
                           data |-> Raise(Exc("DataSourceError", <<"No such file", "or directory">>))]
      [] f = "noshx" -> [exists |-> TRUE, hasPrj |-> FALSE, prjBad |-> FALSE,
                         data |-> Raise(Exc("DataSourceError", <<"Unable to open", ".shx">>))]
      [] f = "counts" -> [exists |-> TRUE, hasPrj |-> TRUE, prjBad |-> FALSE, data |-> Ok(GdfCounts)]
      [] f = "blobby" -> [exists |-> TRUE, hasPrj |-> FALSE, prjBad |-> FALSE, data |-> Ok(GdfBlobby)]
      [] f = "crsdata" -> [exists |-> TRUE, hasPrj |-> FALSE, prjBad |-> FALSE,
                           data |-> Raise(Exc("CRSError", <<"Invalid projection", "in data">>))]

\* gpd.read_file(path) with the sidecar present or not.  A missing file is
\* reported by the driver as a DataSourceError (pyogrio), never as a
\* FileNotFoundError; the reference system of a dataset read without a
\* sidecar is None.
gpd_read_file(f, prjPresent) ==
    LET Read(file) ==
            IF ~file.exists THEN Raise(Exc("DataSourceError", <<"No such file", "or directory">>))
            ELSE IF prjPresent /\ file.prjBad
            THEN Raise(Exc("CRSError", <<"Invalid projection", "EPSG">>))
            ELSE IF Raised(file.data) THEN file.data
            ELSE Ok([gdf |-> file.data.ok @@ [crs |-> IF prjPresent THEN "EPSG:4326" ELSE "None"]])
    IN  Read(VecFile(f))

DfPoints ==
    [n |-> 2, cols |-> << Col("lon", "float64", <<Num(11640), Num(12150)>>),
                          Col("lat", "float64", <<Num(3990), Num(3120)>>),
                          Col("name", "object", <<S("A"), S("B")>>) >>]

DfTexts ==
    [n |-> 2, cols |-> << Col("name", "object", <<S("A"), S("B")>>),
                          Col("city", "object", <<S("C"), S("D")>>) >>]

DfBadLon ==
    [n |-> 2, cols |-> << Col("lon", "object", <<S("116.4"), S("A")>>),
                          Col("lat", "float64", <<Num(3990), Num(3120)>>) >>]

DfHeaderless ==
    [n |-> 2, cols |-> << Col("Unnamed: 0", "float64", <<Num(11640), Num(12150)>>),
                          Col("Unnamed: 1", "float64", <<Num(3990), Num(3120)>>) >>]

DfDigits ==
    [n |-> 2, cols |-> << Col("0", "float64", <<Num(3990), Num(3120)>>),
                          Col("1", "float64", <<Num(11640), Num(12150)>>),
                          Col("id", "object", <<S("A"), S("B")>>) >>]

DfIntPoints ==
    [n |-> 2, cols |-> << Col("x", "int64", <<Num(11600), Num(12100)>>),
                          Col("y", "int64", <<Num(3900), Num(3100)>>) >>]

\* A header row with a longitude synonym, no latitude synonym, and two
\* digit-labelled columns that hold a latitude/longitude-looking pair.
DfLonPair ==
    [n |-> 2, cols |-> << Col("longitude", "float64", <<Num(11640), Num(12150)>>),
                          Col("0", "float64", <<Num(10400), Num(10650)>>),
                          Col("1", "float64", <<Num(3060), Num(2950)>>) >>]

\* A header row without any coordinate synonym: two neighbouring numeric
\* columns hold longitudes and latitudes.
DfPlain ==
    [n |-> 2, cols |-> << Col("name", "object", <<S("A"), S("B")>>),
                          Col("a", "float64", <<Num(11640), Num(12150)>>),
                          Col("b", "float64", <<Num(3990), Num(3120)>>) >>]

\* Two digit-labelled coordinate pairs; the longitude column of the first
\* pair has a missing value.
DfGaps ==
    [n |-> 2, cols |-> << Col("0", "float64", <<Num(11640), NA>>),
                          Col("1", "float64", <<Num(3990), Num(3120)>>),
                          Col("3", "float64", <<Num(11640), Num(12150)>>),
                          Col("4", "float64", <<Num(3990), Num(3120)>>) >>]

\* Named coordinates, a short text column and a column of long texts.
DfMemo ==
    [n |-> 2, cols |-> << Col("lon", "float64", <<Num(11640), Num(12150)>>),
                          Col("lat", "float64", <<Num(3990), Num(3120)>>),
                          Col("name", "object", <<S("A"), S("B")>>),
                          Col("memo", "object", <<S("LONGTEXT"), S("A")>>) >>]

TabFiles == {"points", "texts", "badlon", "missing", "garbled", "empty", "locked",
             "headerless", "digits", "intpoints", "convfail", "lonpair", "plain", "gaps",
             "memo"}

\* exists: os.path.exists(path); load: what pd.read_csv / pd.read_excel
\* yields.
TabFile(f) ==
    CASE f = "points" -> [exists |-> TRUE, load |-> Ok(DfPoints)]
      [] f = "texts" -> [exists |-> TRUE, load |-> Ok(DfTexts)]
      [] f = "badlon" -> [exists |-> TRUE, load |-> Ok(DfBadLon)]
      [] f = "missing" -> [exists |-> FALSE, load |-> Raise(Exc("FileNotFoundError", <<"No such file">>))]
      [] f = "garbled" -> [exists |-> TRUE,
                           load |-> Raise(Exc("ParserError", <<"Expected", "2", "fields, saw", "3">>))]
      [] f = "empty" -> [exists |-> TRUE,
                         load |-> Raise(Exc("EmptyDataError", <<"No columns to parse from file">>))]
      [] f = "locked" -> [exists |-> TRUE,
                          load |-> Raise(Exc("PermissionError", <<"Permission denied">>))]
      [] f = "headerless" -> [exists |-> TRUE, load |-> Ok(DfHeaderless)]
      [] f = "digits" -> [exists |-> TRUE, load |-> Ok(DfDigits)]
      [] f = "intpoints" -> [exists |-> TRUE, load |-> Ok(DfIntPoints)]
      [] f = "convfail" -> [exists |-> TRUE,
                            load |-> Raise(Exc("ValueError", <<"could not convert", "3", "to float">>))]
      [] f = "lonpair" -> [exists |-> TRUE, load |-> Ok(DfLonPair)]
      [] f = "plain" -> [exists |-> TRUE, load |-> Ok(DfPlain)]
      [] f = "gaps" -> [exists |-> TRUE, load |-> Ok(DfGaps)]
      [] f = "memo" -> [exists |-> TRUE, load |-> Ok(DfMemo)]

(***************************************************************************)
(* Format dispatcher (FileProcessorFactory)                                *)
(***************************************************************************)
ShpExtensions == {".shp"}              \* ShpProcessor.SUPPORTED_EXTENSIONS
TabularExtensions == {".csv", ".txt", ".xlsx", ".xls"}   \* TabularProcessor.SUPPORTED_EXTENSIONS

\* FileProcessorFactory.PROCESSORS: extension -> processor class
PROCESSORS ==
    [e \in ShpExtensions \cup TabularExtensions |->
        IF e \in ShpExtensions THEN "ShpProcessor" ELSE "TabularProcessor"]

\* Variant of ExtOf: the extension is compared as written.
ExtOf_CaseSensitive(path) == path.ext

\* os.path.splitext(file_path)[1].lower()
ExtOf(path) == LowerTok(path.ext)

\* The paths a caller can pass.
Paths ==
    {[file |-> f, ext |-> e] : f \in VecFiles, e \in {".shp", ".SHP"}}
    \cup {[file |-> f, ext |-> e] : f \in TabFiles, e \in {".csv", ".Csv", ".txt", ".xlsx", ".xls", ".XLS"}}
    \cup {[file |-> "notes", ext |-> e] : e \in {".json", ".JSON", ".geojson", ""}}


\* SUPPORTED_EXTENSIONS of a processor class
SupportedExtensions(proc) == IF proc = "ShpProcessor" THEN ShpExtensions ELSE TabularExtensions

NoExc == Exc("none", << >>)

\* The state of a request that is not running.
IdleReq ==
    [pc |-> "idle", entry |-> "none", path |-> [file |-> "", ext |-> ""], proc |-> "none",
     given |-> <<None, None>>, lon_col |-> None, lat_col |-> None,
     hctx |-> "none", exc |-> NoExc, pending |-> None, held |-> None,
     reads |-> << >>, handled |-> << >>, reports |-> << >>, stages |-> << >>,
     afterFail |-> << >>, fsOps |-> << >>, sent |-> << >>, sendFailed |-> FALSE,
     result |-> None]

\* Envelopes of Message.success / Message.error (after their send).
SuccessEnvelope(data) == [status |-> "success", data |-> data]
ErrorEnvelope(message) == [status |-> "error", message |-> message]

IsEnvelope(v) == "status" \in DOMAIN v

\* What the notification channel raises when a send fails.
SendError == Exc("RuntimeError", <<"send failed">>)

\* processor.process() of line 446: the call passes no dataset, and
\* process(self, gdf) of the vector processor requires one; the tabular
\* processor has no process method at all.
ProcessCallError(proc) ==
    IF proc = "ShpProcessor"
    THEN Exc("TypeError", <<"process() missing 1 required positional argument: 'gdf'">>)
    ELSE Exc("AttributeError", <<"'TabularProcessor' object has no attribute 'process'">>)

\* The exception leaves create_processor.
Escape(s, e) == [s EXCEPT !.pc = "done", !.result = [raised |-> e], !.pending = None]

\* An exception e reaches an `except Exception` clause of create_processor
\* (ctx "inner": lines 440-446, ctx "outer": lines 448-451): the handler is
\* looked up and its format_response runs up to its first await.
RECURSIVE Catch(_, _, _)

\* Variant of AfterFormatResponse: the resumption after remediation is not
\* covered by the outer try, so what it raises reaches the caller.
AfterFormatResponse_Uncovered(s, response) ==
    IF s.hctx = "inner"
    THEN IF IsStr(response)
         THEN [s EXCEPT !.pc = "inner_error_send", !.pending = response]
         ELSE Escape(s, ProcessCallError(s.proc))
    ELSE [s EXCEPT !.pc = "outer_error_send", !.pending = response]

\* Lines 443-446 (inner) and 451 (outer): what the dispatcher does with the
\* value of format_response.  A str becomes the message of error(); any
\* other value makes the inner clause call processor.process(), which
\* raises into the outer clause.
AfterFormatResponse(s, response) ==
    IF s.hctx = "inner"
    THEN IF IsStr(response)
         THEN [s EXCEPT !.pc = "inner_error_send", !.pending = response]
         ELSE Catch(s, ProcessCallError(s.proc), "outer")
    ELSE [s EXCEPT !.pc = "outer_error_send", !.pending = response]

Catch(s, e, ctx) ==
    LET Dispatch(handler, s1, report) ==
            IF handler = "CRSErrorHandler"
            THEN \* CRSErrorHandler.format_response awaits the send of line 134
                 [s1 EXCEPT !.pc = "crs_report_send", !.pending = report]
            ELSE \* BaseErrorHandler.format_response returns the rendered report
                 AfterFormatResponse(s1, report)
        Built(handler, info) ==
            Dispatch(handler,
                     [s EXCEPT !.handled = Append(@, [kind |-> e.kind, handler |-> handler,
                                                     ctx |-> ctx]),
                               !.reports = Append(@, info.cause),
                               !.exc = e, !.hctx = ctx],
                     Str(RenderSections(info)))
        Found(handler) == Built(handler, build_error_info(handler, PathText(s.path), e))
    IN  Found(get_handler(e))

\* An exception leaves core(): create_processor catches it at line 441; a
\* caller that awaits processor.core() itself receives it.
CoreRaises(s, e) == IF s.entry = "factory" THEN Catch(s, e, "inner") ELSE Escape(s, e)

\* core() returns v: create_processor goes on to line 447; a caller that
\* awaits processor.core() itself receives v.
CoreReturns(s, v) ==
    IF s.entry = "factory" THEN [s EXCEPT !.pc = "wrap_send", !.pending = v]
    ELSE [s EXCEPT !.pc = "done", !.result = v, !.pending = None]

\* The stages of the pipeline that ran, in order; the ones that ran after
\* the first failure was handled are also kept apart.
RunStages(s, st) ==
    [s EXCEPT !.stages = @ \o st,
              !.afterFail = IF s.handled # << >> THEN @ \o st ELSE @]

ReadEvent(by, prjPresent, rd) ==
    [by |-> by, prj |-> prjPresent, out |-> IF Raised(rd) THEN rd.exc.kind ELSE "ok"]

\* The dataset file is read: the read is logged with its outcome.
DoRead(s, by, prjPresent, rd) ==
    [s EXCEPT !.reads = Append(@, ReadEvent(by, prjPresent, rd)),
              !.fsOps = Append(@, "read")]

\* Variant of MoveSidecar: the sidecar is copied, not moved.
MoveSidecar_Copy(prj, f) == prj

\* shutil.move(prj_path, temp_prj.name): the sidecar leaves its path.
MoveSidecar(prj, f) == prj \ {f}

\* ShpProcessor.core (lines 58-60) up to its first await.
ShpCore(s, prj) ==
    LET Built(s2, b) ==
            IF Raised(b) THEN Catch(s2, b.exc, "inner")
            ELSE [s2 EXCEPT !.pc = "shp_result_send",
                            !.pending = Str(b.ok.result_msg), !.held = b.ok]
        Loaded(s1, b) == Built(RunStages(s1, <<"load">> \o b.stages), b)
        Read(s1, rd) ==
            IF Raised(rd) THEN Catch(s1, rd.exc, "inner")
            ELSE Loaded(s1, ShpBuild(s.path, rd.ok.gdf))
        Opened(rd) == Read(DoRead(s, "core", s.path.file \in prj, rd), rd)
    IN  Opened(gpd_read_file(s.path.file, s.path.file \in prj))

\* TabularProcessor.core (lines 225-416) up to its first await.
TabCore(s) ==
    LET Built(s2, b) ==
            IF Raised(b) THEN CoreRaises(s2, b.exc)
            ELSE IF "soft" \in DOMAIN b
            THEN [s2 EXCEPT !.pc = "tab_err_send", !.pending = Str(b.soft)]
            ELSE [s2 EXCEPT !.pc = "tab_result_send",
                            !.pending = Str(b.ok.result_msg), !.held = b.ok]
        Loaded(s1, b) ==
            Built([RunStages(s1, <<"load">> \o b.stages)
                      EXCEPT !.lon_col = b.lon, !.lat_col = b.lat], b)
        Read(s1, load) ==
            IF Raised(load) THEN CoreRaises(s1, load.exc)
            ELSE Loaded(s1, TabBuild(s.path, ExtOf(s.path), load.ok, s.lon_col, s.lat_col))
        Checked(s0, file) ==
            IF ~file.exists THEN CoreRaises(s0, Exc("FileNotFoundError", << >>))
            ELSE Read(DoRead(s0, "core", FALSE, file.load), file.load)
    IN  Checked([s EXCEPT !.fsOps = Append(@, "exists")], TabFile(s.path.file))

\* FileProcessorFactory.create_processor (lines 427-451) from the call to
\* its first await.
CreateProcessor(path, prj) ==
    LET Made(s1, ext, processor_class) ==
            IF ext \notin SupportedExtensions(processor_class)
            THEN Catch(s1, Exc("ValueError", <<"unsupported file type:", ext>>), "outer")
            ELSE IF processor_class = "ShpProcessor" THEN ShpCore(s1, prj)
            ELSE TabCore(s1)
        Resolved(s0, ext) ==
            IF ext \notin DOMAIN PROCESSORS
            THEN Catch(s0, Exc("ValueError", <<"2">>), "outer")
            ELSE Made([s0 EXCEPT !.proc = PROCESSORS[ext]], ext, PROCESSORS[ext])
    IN  Resolved([IdleReq EXCEPT !.path = path, !.entry = "factory"], ExtOf(path))

(***************************************************************************)
(* State, actions                                                          *)
(***************************************************************************)
\* prjAt: the vector files whose .prj sidecar is at its original path;
\* tmpFiles: the files whose sidecar sits in a temporary file.
Init ==
    /\ prjAt = {f \in VecFiles : VecFile(f).hasPrj}
    /\ tmpFiles = {}
    /\ rq = [r \in Reqs |-> IdleReq]

\* A caller awaits create_processor(path); requests are served one at a
\* time.
Start(r) ==
    /\ \A q \in Reqs : rq[q].pc = "idle"
    /\ \E path \in Paths : rq' = [rq EXCEPT ![r] = CreateProcessor(path, prjAt)]
    /\ UNCHANGED <<prjAt, tmpFiles>>

\* manager.send_message(rq[r].pending) is attempted.
Sent(s, ok) ==
    [s EXCEPT !.sent = Append(@, [msg |-> s.pending, ok |-> ok]),
              !.sendFailed = @ \/ ~ok]

\* ShpProcessor.process lines 177-182: the report is sent, the summary is
\* dumped for the log, and the envelope goes back through core to line 447.
SendShpResult(r) ==
    /\ rq[r].pc = "shp_result_send"
    /\ \E ok \in BOOLEAN :
         LET s == Sent(rq[r], ok)
         IN  rq' = [rq EXCEPT ![r] =
                 IF ~ok THEN Catch(s, SendError, "inner")
                 ELSE IF ~ShpJsonOk(s.held.summary)
                 THEN Catch(s, Exc("TypeError", <<"Object of type int64 is not JSON serializable">>), "inner")
                 ELSE [s EXCEPT !.pc = "wrap_send",
                                !.pending = [status |-> "success", data |-> s.pending]]]
    /\ UNCHANGED <<prjAt, tmpFiles>>

\* TabularProcessor.core lines 296 / 307: the bare message is sent.
SendTabErr(r) ==
    /\ rq[r].pc = "tab_err_send"
    /\ \E ok \in BOOLEAN :
         LET s == Sent(rq[r], ok)
         IN  rq' = [rq EXCEPT ![r] =
                 IF ~ok THEN CoreRaises(s, SendError)
                 ELSE [s EXCEPT !.pc = "tab_err_env_send"]]
    /\ UNCHANGED <<prjAt, tmpFiles>>

\* TabularProcessor.core lines 297 / 308: return await error(err_msg); the
\* envelope that error() builds is the value of core().
SendTabErrEnv(r) ==
    /\ rq[r].pc = "tab_err_env_send"
    /\ \E ok \in BOOLEAN :
         LET s == Sent(rq[r], ok)
         IN  rq' = [rq EXCEPT ![r] =
                 IF ~ok THEN CoreRaises(s, SendError)
                 ELSE CoreReturns(s, ErrorEnvelope(s.pending))]
    /\ UNCHANGED <<prjAt, tmpFiles>>

\* TabularProcessor.core lines 412-414: the report is sent and the analysis
\* is dumped for the log.
SendTabResult(r) ==
    /\ rq[r].pc = "tab_result_send"
    /\ \E ok \in BOOLEAN :
         LET s == Sent(rq[r], ok)
         IN  rq' = [rq EXCEPT ![r] =
                 IF ~ok THEN CoreRaises(s, SendError)
                 ELSE IF ~TabJsonOk(s.held.analysis)
                 THEN CoreRaises(s, Exc("TypeError", <<"Object of type int64 is not JSON serializable">>))
                 ELSE [s EXCEPT !.pc = "tab_success_send"]]
    /\ UNCHANGED <<prjAt, tmpFiles>>

\* TabularProcessor.core line 416: return await success(result_msg).
SendTabSuccess(r) ==
    /\ rq[r].pc = "tab_success_send"
    /\ \E ok \in BOOLEAN :
         LET s == Sent(rq[r], ok)
         IN  rq' = [rq EXCEPT ![r] =
                 IF ~ok THEN CoreRaises(s, SendError)
                 ELSE CoreReturns(s, SuccessEnvelope(s.pending))]
    /\ UNCHANGED <<prjAt, tmpFiles>>

\* create_processor line 447: return await success(process_result).
SendWrap(r) ==
    /\ rq[r].pc = "wrap_send"
    /\ \E ok \in BOOLEAN :
         LET s == Sent(rq[r], ok)
         IN  rq' = [rq EXCEPT ![r] =
                 IF ~ok THEN Catch(s, SendError, "outer")
                 ELSE [s EXCEPT !.pc = "done", !.result = SuccessEnvelope(s.pending),
                                !.pending = None]]
    /\ UNCHANGED <<prjAt, tmpFiles>>

\* create_processor line 444: return await error(response).
SendInnerError(r) ==
    /\ rq[r].pc = "inner_error_send"
    /\ \E ok \in BOOLEAN :
         LET s == Sent(rq[r], ok)
         IN  rq' = [rq EXCEPT ![r] =
                 IF ~ok THEN Catch(s, SendError, "outer")
                 ELSE [s EXCEPT !.pc = "done", !.result = ErrorEnvelope(s.pending),
                                !.pending = None]]
    /\ UNCHANGED <<prjAt, tmpFiles>>

\* create_processor line 451: return await error(response); a failure here
\* is raised to the caller.
SendOuterError(r) ==
    /\ rq[r].pc = "outer_error_send"
    /\ \E ok \in BOOLEAN :
         LET s == Sent(rq[r], ok)
         IN  rq' = [rq EXCEPT ![r] =
                 IF ~ok THEN Escape(s, SendError)
                 ELSE [s EXCEPT !.pc = "done", !.result = ErrorEnvelope(s.pending),
                                !.pending = None]]
    /\ UNCHANGED <<prjAt, tmpFiles>>


\* An exception raised inside format_response leaves the except clause it
\* runs in: from the inner clause it reaches the outer one, from the outer
\* one it reaches the caller.
RaiseInHandler(s, e) == IF s.hctx = "inner" THEN Catch(s, e, "outer") ELSE Escape(s, e)

\* Variant of PrjExists: the answer is the one the request got when its
\* load looked for the sidecar, before the send was awaited.
PrjExists_BeforeSend(s, prj) == s.reads # << >> /\ s.reads[Len(s.reads)].prj

\* os.path.exists(prj_path) of line 142, evaluated when the send of line
\* 134 has returned: prj is the set of sidecars in place at that moment.
PrjExists(s, prj) == s.path.file \in prj

\* CRSErrorHandler.format_response lines 134-180: the first report is sent;
\* then, without awaiting, the sidecar is moved to a temporary file if it
\* exists, and the dataset is read again.  moveOk is whether shutil.move
\* succeeds.
SendCrsReport(r) ==
    /\ rq[r].pc = "crs_report_send"
    /\ \E ok \in BOOLEAN, moveOk \in BOOLEAN :
         LET s == Sent(rq[r], ok)
             f == s.path.file
             exists == PrjExists(s, prjAt)
             s0 == [s EXCEPT !.fsOps = Append(@, "exists")]
             prj1 == IF exists THEN MoveSidecar(prjAt, f) ELSE prjAt
             Reread(s1, rd) ==
                 IF Raised(rd)
                 THEN AfterFormatResponse(
                         [s1 EXCEPT !.reports = Append(@, CauseCRSRepairFailed)],
                         Str(RenderSections(CRSRepairFailedInfo(s.exc, rd.exc))))
                 ELSE [s1 EXCEPT !.pc = "crs_ok_send",
                                 !.pending = Str(<<"read ok">> \o PathText(s.path)
                                                 \o <<"crs after removing PRJ:", rd.ok.gdf.crs>>),
                                 !.held = rd.ok]
             Read(rd) ==
                 Reread(DoRead(IF exists THEN [s0 EXCEPT !.fsOps = Append(@, "move")] ELSE s0,
                               "remediation", f \in prj1, rd), rd)
         IN  /\ (~ok \/ ~exists) => moveOk
             /\ IF ~ok
                THEN /\ rq' = [rq EXCEPT ![r] = RaiseInHandler(s, SendError)]
                     /\ UNCHANGED <<prjAt, tmpFiles>>
                ELSE IF ~moveOk
                THEN /\ rq' = [rq EXCEPT ![r] =
                                RaiseInHandler(s0, Exc("PermissionError", <<"Permission denied">>))]
                     /\ UNCHANGED <<prjAt, tmpFiles>>
                ELSE /\ prjAt' = prj1
                     /\ tmpFiles' = IF exists THEN tmpFiles \cup {f} ELSE tmpFiles
                     /\ rq' = [rq EXCEPT ![r] = Read(gpd_read_file(f, f \in prj1))]

\* CRSErrorHandler.format_response lines 180-185: the success note is sent
\* and the recovered dataset is returned to the dispatcher.
SendCrsOk(r) ==
    /\ rq[r].pc = "crs_ok_send"
    /\ \E ok \in BOOLEAN :
         LET s == Sent(rq[r], ok)
         IN  rq' = [rq EXCEPT ![r] =
                 IF ~ok THEN RaiseInHandler(s, SendError)
                 ELSE AfterFormatResponse(s, s.held)]
    /\ UNCHANGED <<prjAt, tmpFiles>>

(***************************************************************************)
(* The earlier entry point read_shp_file of GeoFile/ShpProcessor.py, with  *)
(* its own CRS remediation handle_crs_error.  Its summary code (lines      *)
(* 138-257) is the code of ShpProcessor.process.                           *)
(***************************************************************************)
\* format_error (lines 361-365): the sections joined by blank lines.
format_error(cause, findings, suggestions) ==
    <<MarkCause, NL, cause, NL, NL, MarkFindings, NL>> \o Join(findings)
    \o <<NL, NL, "[suggestions] repair plan", NL>> \o Join(suggestions)

\* err_msg of handle_crs_error (lines 268-292)
LegacyCrsMsg(path, e) ==
    <<"CRS configuration error:">> \o PathText(path) \o <<NL>>
    \o format_error(CauseCRS,
                    << <<"original error: ">> \o e.msg, <<"possible causes:">>,
                       <<"1. PRJ missing or broken">>, <<"2. non-standard EPSG code">>,
                       <<"3. projection not set on export">> >>,
                    << <<"plan 1: fix the CRS in QGIS">>, <<"plan 2: repair the PRJ file by hand">> >>)
    \o <<NL, "attempting automatic repair">>

\* format_crs_error (lines 368-375) of the report built in lines 65-86
LegacyRepairFailedMsg(path, crs_err, read_error) ==
    LET Text(info) ==
            <<"CRS repair failed:">> \o PathText(path) \o <<NL, MarkCause, NL, info.cause, NL, NL,
              MarkFindings, NL>> \o Join(info.findings) \o <<NL, NL, MarkSuggest, NL>>
            \o Join(info.suggestions)
    IN  Text(CRSRepairFailedInfo(crs_err, read_error))

\* analyze_datasource_error and the message of handle_datasource_error
\* (lines 320-358)
LegacyDataSourceMsg(path, e) ==
    LET error_msg == Lower(e.msg)
        reasons == IF Contains(error_msg, "no such file")
                   THEN << <<"path contains special characters">> >>
                   ELSE IF Contains(error_msg, "unrecognized data source")
                   THEN << <<"extension does not match the format">> >>
                   ELSE IF Contains(error_msg, "failed to open")
                   THEN << <<"file in use by another program">>, <<"insufficient permission">> >>
                   ELSE IF Contains(error_msg, ".shx")
                   THEN << <<"shapefile incomplete (.shx missing)">> >>
                   ELSE << <<"unknown data source error">> >>
    IN  <<"data source error:">> \o PathText(path) \o <<NL>>
        \o format_error(CauseDataSource, reasons,
                        << <<"step 1: check file completeness">>, <<"step 2: check encoding">>,
                           <<"step 3: specify the driver">>, <<"step 4: open in QGIS">> >>)
        \o <<NL, "try /fix_datasource">>

\* The outer `except Exception as e` of read_shp_file (lines 259-263).
LegacyOuter(s, e) ==
    [s EXCEPT !.pc = "lg_outer_send", !.exc = e,
              !.pending = Str(<<"error while processing shp file:">> \o e.msg)]

\* Lines 138-252 for a dataset that was read: the summary up to its send.
LegacySummary(s, gdf) ==
    LET Built(s1, b) ==
            IF Raised(b) THEN LegacyOuter(s1, b.exc)
            ELSE [s1 EXCEPT !.pc = "lg_result_send", !.pending = Str(b.ok.result_msg),
                            !.held = b.ok]
        Summed(b) == Built(RunStages(s, <<"load">> \o b.stages), b)
    IN  Summed(ShpBuild(s.path, gdf))

\* The `except Exception as read_error` around handle_crs_error (lines
\* 63-89): whatever handle_crs_error raises is reported as a failed repair.
LegacyRepairFailed(s, read_error) ==
    [s EXCEPT !.pc = "lg_err_send",
              !.pending = Str(LegacyRepairFailedMsg(s.path, s.exc, read_error))]

\* read_shp_file (lines 41-257) from the call to its first await.
ReadShpFile(path, prj) ==
    LET Read(s1, rd) ==
            IF ~Raised(rd) THEN LegacySummary(s1, rd.ok.gdf)
            ELSE IF IsInstance(rd.exc, {"CRSError"})
            THEN [s1 EXCEPT !.pc = "lg_crs_report_send", !.exc = rd.exc,
                            !.pending = Str(LegacyCrsMsg(path, rd.exc))]
            ELSE IF IsInstance(rd.exc, {"DataSourceError"})
            THEN [s1 EXCEPT !.pc = "lg_err_send",
                            !.pending = Str(LegacyDataSourceMsg(path, rd.exc))]
            ELSE \* the other except clauses only build err_msg; line 139
                 \* then reads gdf, which was never bound
                 LegacyOuter(s1, Exc("UnboundLocalError", <<"gdf referenced before assignment">>))
        Opened(s0, rd) == Read(DoRead(s0, "core", path.file \in prj, rd), rd)
        Checked(s0) ==
            IF ~VecFile(path.file).exists
            THEN [s0 EXCEPT !.pc = "lg_err_send",
                            !.pending = Str(<<"file">> \o PathText(path) \o <<"does not exist">>)]
            ELSE Opened(s0, gpd_read_file(path.file, path.file \in prj))
    IN  Checked([IdleReq EXCEPT !.path = path, !.entry = "legacy", !.fsOps = <<"exists">>])

LegacyPaths == {[file |-> f, ext |-> ".shp"] : f \in VecFiles}

\* A caller awaits read_shp_file(path).
LegacyStart(r) ==
    /\ \A q \in Reqs : rq[q].pc = "idle"
    /\ \E path \in LegacyPaths : rq' = [rq EXCEPT ![r] = ReadShpFile(path, prjAt)]
    /\ UNCHANGED <<prjAt, tmpFiles>>

\* Lines 55-56, 87-89 and 339-341: an error message is sent and returned in
\* an error envelope.
LegacySendError(r) ==
    /\ rq[r].pc = "lg_err_send"
    /\ \E ok \in BOOLEAN :
         LET s == Sent(rq[r], ok)
         IN  rq' = [rq EXCEPT ![r] =
                 IF ~ok THEN LegacyOuter(s, SendError)
                 ELSE [s EXCEPT !.pc = "done", !.result = ErrorEnvelope(s.pending),
                                !.pending = None]]
    /\ UNCHANGED <<prjAt, tmpFiles>>

\* handle_crs_error lines 290-306: the message is sent; then, without
\* awaiting, the sidecar is moved if it exists and the dataset is read
\* again.
LegacySendCrsReport(r) ==
    /\ rq[r].pc = "lg_crs_report_send"
    /\ \E ok \in BOOLEAN, moveOk \in BOOLEAN :
         LET s == Sent(rq[r], ok)
             f == s.path.file
             exists == f \in prjAt
             s0 == [s EXCEPT !.fsOps = Append(@, "exists")]
             prj1 == IF exists THEN MoveSidecar(prjAt, f) ELSE prjAt
             Reread(s1, rd) ==
                 IF Raised(rd) THEN LegacyRepairFailed(s1, rd.exc)
                 ELSE [s1 EXCEPT !.pc = "lg_crs_ok_send",
                                 !.pending = Str(<<"read ok">> \o PathText(s.path)
                                                 \o <<"crs after removing PRJ:", rd.ok.gdf.crs>>),
                                 !.held = rd.ok]
             Read(rd) ==
                 Reread(DoRead(IF exists THEN [s0 EXCEPT !.fsOps = Append(@, "move")] ELSE s0,
                               "remediation", f \in prj1, rd), rd)
         IN  /\ (~ok \/ ~exists) => moveOk
             /\ IF ~ok
                THEN /\ rq' = [rq EXCEPT ![r] = LegacyRepairFailed(s, SendError)]
                     /\ UNCHANGED <<prjAt, tmpFiles>>
                ELSE IF ~moveOk
                THEN /\ rq' = [rq EXCEPT ![r] =
                                LegacyRepairFailed(s0, Exc("PermissionError", <<"Permission denied">>))]
                     /\ UNCHANGED <<prjAt, tmpFiles>>
                ELSE /\ prjAt' = prj1
                     /\ tmpFiles' = IF exists THEN tmpFiles \cup {f} ELSE tmpFiles
                     /\ rq' = [rq EXCEPT ![r] = Read(gpd_read_file(f, f \in prj1))]

\* handle_crs_error lines 308-313: the success note is sent and the dataset
\* returned; read_shp_file goes on with the summary.
LegacySendCrsOk(r) ==
    /\ rq[r].pc = "lg_crs_ok_send"
    /\ \E ok \in BOOLEAN :
         LET s == Sent(rq[r], ok)
         IN  rq' = [rq EXCEPT ![r] =
                 IF ~ok THEN LegacyRepairFailed(s, SendError)
                 ELSE LegacySummary(s, s.held.gdf)]
    /\ UNCHANGED <<prjAt, tmpFiles>>

\* Lines 252-257: the report is sent, the summary dumped for the log, and
\* the success envelope returned.
LegacySendResult(r) ==
    /\ rq[r].pc = "lg_result_send"
    /\ \E ok \in BOOLEAN :
         LET s == Sent(rq[r], ok)
         IN  rq' = [rq EXCEPT ![r] =
                 IF ~ok THEN LegacyOuter(s, SendError)
                 ELSE IF ~ShpJsonOk(s.held.summary)
                 THEN LegacyOuter(s, Exc("TypeError", <<"Object of type int64 is not JSON serializable">>))
                 ELSE [s EXCEPT !.pc = "done",
                                !.result = [status |-> "success", data |-> s.pending],
                                !.pending = None]]
    /\ UNCHANGED <<prjAt, tmpFiles>>

\* Lines 261-263: the error of the outer except clause is sent and
\* returned; a failure of this send is raised to the caller.
LegacySendOuter(r) ==
    /\ rq[r].pc = "lg_outer_send"
    /\ \E ok \in BOOLEAN :
         LET s == Sent(rq[r], ok)
         IN  rq' = [rq EXCEPT ![r] =
                 IF ~ok THEN Escape(s, SendError)
                 ELSE [s EXCEPT !.pc = "done", !.result = ErrorEnvelope(s.pending),
                                !.pending = None]]
    /\ UNCHANGED <<prjAt, tmpFiles>>

(***************************************************************************)
(* Explicit coordinate columns.  The caller gives a pair of identifiers:   *)
(* to a TabularProcessor by setting lon_col / lat_col before awaiting      *)
(* core(), to process_geo_data_file as arguments.                          *)
(***************************************************************************)
\* The identifier pairs a caller gives: names, zero-based indices, a name
\* of a text column.
ExplicitRefs ==
    { <<Name("lon"), Name("lat")>>, <<Name("lat"), Name("lon")>>,
      <<Idx(0), Idx(1)>>, <<Name("name"), Name("lat")>> }

ExplicitPaths ==
    {[file |-> f, ext |-> e] :
        f \in {"points", "headerless", "intpoints", "missing", "garbled"}, e \in {".csv"}}
    \cup {[file |-> "points", ext |-> ".dat"]}

\* A caller builds TabularProcessor(path), sets lon_col and lat_col and
\* awaits core().  The constructor validates the extension (lines 31-36).
PresetStart(r) ==
    /\ \A q \in Reqs : rq[q].pc = "idle"
    /\ \E path \in ExplicitPaths, refs \in ExplicitRefs :
         LET Made(s) ==
                 IF ExtOf(path) \notin TabularExtensions
                 THEN Escape(s, Exc("ValueError", <<"unsupported file type:", ExtOf(path)>>))
                 ELSE TabCore(s)
         IN  rq' = [rq EXCEPT ![r] =
                 Made([IdleReq EXCEPT !.path = path, !.entry = "processor",
                                      !.proc = "TabularProcessor", !.given = refs,
                                      !.lon_col = refs[1], !.lat_col = refs[2]])]
    /\ UNCHANGED <<prjAt, tmpFiles>>

\* process_geo_data_file lines 283-287: the except clause of the whole
\* body; error_msg is sent next.
GeoOuter(s, e) ==
    [s EXCEPT !.pc = "geo_outer_send", !.exc = e,
              !.pending = Str(<<"file processing failed:">> \o e.msg)]

\* process_geo_data_file (lines 65-105) from the call to its first await.
\* detect_col (lines 95-102) looks its argument up in its own locals(),
\* where the names lon_col and lat_col of the enclosing function are not
\* present: the call of line 104 raises KeyError('lon_col') for every
\* dataset that was loaded, and lines 106-281 never run.
ProcessGeoDataFile(path, lon_col, lat_col) ==
    LET Loaded(s1, load) ==
            IF Raised(load) THEN GeoOuter(s1, load.exc)
            ELSE GeoOuter(RunStages(s1, <<"load">>), Exc("KeyError", <<"'lon_col'">>))
        Checked(s0, file) ==
            IF ~file.exists
            THEN [s0 EXCEPT !.pc = "geo_err_send",
                            !.pending = Str(<<"file">> \o PathText(path) \o <<"does not exist">>)]
            ELSE IF ExtOf(path) \notin {".xlsx", ".xls", ".txt", ".csv"}
            THEN [s0 EXCEPT !.pc = "geo_err_send",
                            !.pending = Str(<<"unsupported file format:", ExtOf(path)>>)]
            ELSE Loaded(DoRead(s0, "geo", FALSE, file.load), file.load)
    IN  Checked([IdleReq EXCEPT !.path = path, !.entry = "geo", !.given = <<lon_col, lat_col>>,
                                !.lon_col = lon_col, !.lat_col = lat_col,
                                !.fsOps = <<"exists">>],
                TabFile(path.file))

\* A caller awaits process_geo_data_file(path, lon_col, lat_col).
GeoStart(r) ==
    /\ \A q \in Reqs : rq[q].pc = "idle"
    /\ \E path \in ExplicitPaths, refs \in ExplicitRefs \cup {<<None, None>>} :
         rq' = [rq EXCEPT ![r] = ProcessGeoDataFile(path, refs[1], refs[2])]
    /\ UNCHANGED <<prjAt, tmpFiles>>

\* Lines 69-70 and 82-83: the message is sent and returned in an error
\* envelope; a failing send is caught by the except clause of line 283.
GeoSendError(r) ==
    /\ rq[r].pc = "geo_err_send"
    /\ \E ok \in BOOLEAN :
         LET s == Sent(rq[r], ok)
         IN  rq' = [rq EXCEPT ![r] =
                 IF ~ok THEN GeoOuter(s, SendError)
                 ELSE [s EXCEPT !.pc = "done", !.result = ErrorEnvelope(s.pending),
                                !.pending = None]]
    /\ UNCHANGED <<prjAt, tmpFiles>>

\* Lines 285-287: error_msg is sent and returned in an error envelope; a
\* failure of this send is raised to the caller.
GeoSendOuter(r) ==
    /\ rq[r].pc = "geo_outer_send"
    /\ \E ok \in BOOLEAN :
         LET s == Sent(rq[r], ok)
         IN  rq' = [rq EXCEPT ![r] =
                 IF ~ok THEN Escape(s, SendError)
                 ELSE [s EXCEPT !.pc = "done", !.result = ErrorEnvelope(s.pending),
                                !.pending = None]]
    /\ UNCHANGED <<prjAt, tmpFiles>>

\* The caller takes the result; the request object is gone.
Return(r) ==
    /\ rq[r].pc = "done"
    /\ rq' = [rq EXCEPT ![r] = IdleReq]
    /\ UNCHANGED <<prjAt, tmpFiles>>

Next ==
    \E r \in Reqs :
        \/ Start(r)
        \/ SendShpResult(r)
        \/ SendTabErr(r)
        \/ SendTabErrEnv(r)
        \/ SendTabResult(r)
        \/ SendTabSuccess(r)
        \/ SendWrap(r)
        \/ SendInnerError(r)
        \/ SendOuterError(r)
        \/ SendCrsReport(r)
        \/ SendCrsOk(r)
        \/ LegacyStart(r)
        \/ LegacySendError(r)
        \/ LegacySendCrsReport(r)
        \/ LegacySendCrsOk(r)
        \/ LegacySendResult(r)
        \/ LegacySendOuter(r)
        \/ PresetStart(r)
        \/ GeoStart(r)
        \/ GeoSendError(r)
        \/ GeoSendOuter(r)
        \/ Return(r)

Spec == Init /\ [][Next]_vars

(***************************************************************************)
(* Field classification and the per-field report, one column at a time.   *)
(* A request of entry "field" holds one column; the classifiers are        *)
(* applied to it and then one pass of each processor's field loop, twice.  *)
(***************************************************************************)
\* The longest numeric column and the largest number of distinct text
\* values of the columns drawn.
MaxRows == 2
MaxDistinct == 6

\* classify_field_type(dtype, data) of GeoFile/GeoDataProcessor.py.  The
\* date test comes first: pd.to_datetime converts numbers (as epoch
\* offsets), datetimes and date-like strings, turns a missing value into
\* NaT (so notna().all() is False) and raises for bool data and for other
\* strings; of an empty column every value is a date.
geo_classify_field_type(dtype, vals) ==
    LET Converts(v) == IsNum(v) \/ IsDate(v) \/ (IsS(v) /\ v.str \in {"2020-01-01"})
    IN  IF dtype # "bool" /\ \A i \in 1..Len(vals) : Converts(vals[i])
        THEN Ok("Date")
        ELSE IF dtype \in {"float64", "float32"}
        THEN Ok(IF dtype = "float64" THEN "Double" ELSE "Float")
        ELSE IF dtype = "int64"
        THEN IF Nums(vals) # {} /\ ShortMin <= SeriesMin(vals).num
                               /\ SeriesMax(vals).num <= ShortMax
             THEN Ok("Short Integer")
             ELSE Ok("Long Integer")
        ELSE IF dtype = "object"
        THEN IF \A i \in 1..Len(vals) : IsS(vals[i]) THEN Ok("Text") ELSE Ok("Unknown")
        ELSE Ok("Unknown")

\* The columns drawn: every name with every storage kind and value list.
\* Integer columns hold the values around the 16-bit bounds; text columns
\* hold k distinct values, alone or followed by a repeated and a missing
\* value.
ProbeCols ==
    LET Seqs(vs, lo) == UNION {[1..k -> vs] : k \in lo..MaxRows}
        Edge == {Num(ShortMin - 1), Num(ShortMin), Num(0), Num(ShortMax), Num(ShortMax + 1)}
        Letters == <<"a", "b", "c", "d", "e", "f", "g", "h">>
        Text(k) == [i \in 1..k |-> S(Letters[i])]
        Data ==
            {<<"int64", v>> : v \in Seqs(Edge, 0)}
            \cup {<<"float64", v>> : v \in Seqs({Num(0), Num(ShortMax + 1), NA}, 1)}
            \cup {<<"float32", <<Num(0)>> >>, <<"bool", <<Num(1)>> >>,
                  <<"datetime64", <<Date(1), Date(2)>> >>, <<"object", <<Date(1)>> >>,
                  <<"object", <<S("2020-01-01")>> >>, <<"object", <<S("LONGTEXT")>> >>,
                  <<"object", <<NA>> >>}
            \cup {<<"object", Text(k)>> : k \in 0..MaxDistinct}
            \cup {<<"object", Text(k) \o <<S("a"), NA>> >> : k \in 1..MaxDistinct}
    IN  {Col(n, d[1], d[2]) : n \in {"pop", "id", "FID", "oid", "ObjectID"}, d \in Data}

\* One request holds a column that was read from a file.
FieldInit ==
    /\ prjAt = {f \in VecFiles : VecFile(f).hasPrj}
    /\ tmpFiles = {}
    /\ \E q \in Reqs, c \in ProbeCols :
         rq = [r \in Reqs |->
                 IF r = q
                 THEN [IdleReq EXCEPT !.pc = "field", !.entry = "field", !.held = c,
                                      !.result = [types |-> << >>, data |-> <<c>>,
                                                  summaries |-> << >>]]
                 ELSE IdleReq]

\* Variant of AfterClassify: the classifier drops the missing values of
\* the column it was given (dropna in place).
AfterClassify_DropsMissing(col) == [col EXCEPT !.vals = dropna(@)]

\* The column after a call of classify_field_type(dtype, data): neither
\* classifier assigns to data or calls a method that changes it (dropna,
\* min, max, apply and pd.to_datetime return new objects).
AfterClassify(col) == col

\* Both classifiers are called on the column held (at most twice).
ClassifyField(r) ==
    /\ rq[r].pc \in {"field", "field_summarized"}
    /\ Len(rq[r].result.types) < 2
    /\ LET Called(col, after) ==
                [rq[r] EXCEPT !.pc = "field_classified", !.held = after,
                              !.result.data = Append(@, after),
                              !.result.types =
                                  Append(@, [tools |-> classify_field_type(col.dtype, col.vals),
                                             geo |-> geo_classify_field_type(col.dtype, col.vals)])]
       IN  rq' = [rq EXCEPT ![r] = Called(rq[r].held, AfterClassify(rq[r].held))]
    /\ UNCHANGED <<prjAt, tmpFiles>>

\* One pass of the field loop of each processor over the column held, and
\* the report lines of the fields it recorded.
SummarizeField(r) ==
    /\ rq[r].pc = "field_classified"
    /\ LET Lines(loop, limit) ==
                IF Raised(loop) THEN loop ELSE FieldLines(loop.ok.fields, limit)
           Pass(tab, shp) ==
                [tab |-> tab, shp |-> shp,
                 tabLines |-> Lines(tab, TabularSampleLimit),
                 shpLines |-> Lines(shp, VectorSampleLimit)]
           Summarized(col) ==
                [rq[r] EXCEPT !.pc = "field_summarized",
                              !.result.summaries =
                                  Append(@, Pass(TabColumn(col, [fields |-> << >>,
                                                                 system_fields |-> << >>]),
                                                 ShpColumn(col, Len(col.vals),
                                                           [fields |-> << >>, Geometry |-> << >>,
                                                            GUID |-> << >>, ObjectID |-> << >>])))]
       IN  rq' = [rq EXCEPT ![r] = Summarized(rq[r].held)]
    /\ UNCHANGED <<prjAt, tmpFiles>>

FieldNext == \E r \in Reqs : ClassifyField(r) \/ SummarizeField(r)

SpecFields == FieldInit /\ [][FieldNext]_vars


(***************************************************************************)
(* Concurrent requests.  Each request is one task of the event loop; a     *)
(* task runs from one await to the next without interruption, so every     *)
(* action above is a step of one task and the steps of different tasks     *)
(* interleave freely.                                                      *)
(***************************************************************************)
\* The vector files the concurrent callers ask for.
ConcurrentPaths ==
    {[file |-> f, ext |-> ".shp"] : f \in {"stations", "broken", "roads"}}

\* A caller awaits create_processor(path) while other requests may be
\* suspended at a send.
ConcurrentStart(r) ==
    /\ rq[r].pc = "idle"
    /\ \E path \in ConcurrentPaths : rq' = [rq EXCEPT ![r] = CreateProcessor(path, prjAt)]
    /\ UNCHANGED <<prjAt, tmpFiles>>

ConcurrentNext ==
    \E r \in Reqs :
        \/ ConcurrentStart(r)
        \/ SendShpResult(r)
        \/ SendWrap(r)
        \/ SendInnerError(r)
        \/ SendOuterError(r)
        \/ SendCrsReport(r)
        \/ SendCrsOk(r)
        \/ Return(r)

SpecConcurrent == Init /\ [][ConcurrentNext]_vars

(***************************************************************************)
(* Properties                                                              *)
(***************************************************************************)
\* Request r came in through create_processor / has returned to its caller.
Fac(r) == rq[r].entry = "factory"
Ended(r) == rq[r].pc = "done"
SendsOk(r) == ~rq[r].sendFailed

\* 'data' of a success envelope, 'message' of an error envelope
Payload(env) == IF env.status = "success" THEN env.data ELSE env.message

\* An envelope and the envelope nested in it, if any.
EnvelopesIn(env) == {env} \cup (IF IsEnvelope(Payload(env)) THEN {Payload(env)} ELSE {})

\* The innermost payload of an envelope.
DeepPayload(env) == IF IsEnvelope(Payload(env)) THEN Payload(Payload(env)) ELSE Payload(env)

\* sub occurs in tokens as a contiguous run
ContainsSeq(tokens, sub) ==
    \E i \in 0..(Len(tokens) - Len(sub)) : \A j \in 1..Len(sub) : tokens[i + j] = sub[j]

\* v is a rendered Diagnostic Report: a text that starts with the cause
\* section, followed by the findings section and the suggestions section.
IsDiagnosticReport(v) ==
    /\ IsStr(v)
    /\ Len(v.str) >= 3
    /\ v.str[1] = MarkCause
    /\ \E j, k \in 1..Len(v.str) : 3 < j /\ j < k /\ v.str[j] = MarkFindings /\ v.str[k] = MarkSuggest

\* The cause stated by a rendered report.
CauseOf(v) == v.str[3]

FileExists(path) ==
    IF path.file \in VecFiles THEN VecFile(path.file).exists
    ELSE IF path.file \in TabFiles THEN TabFile(path.file).exists
    ELSE FALSE

\* C1: the envelope returned by create_processor is never nested: its
\* payload (data of a success envelope, message of an error envelope) is
\* never itself an envelope.  (Stated as claimed; the code wraps the
\* envelope of core()/process() a second time.)
C1_EnvelopeNeverNested ==
    \A r \in Reqs :
        (Fac(r) /\ Ended(r) /\ IsEnvelope(rq[r].result)) => ~IsEnvelope(Payload(rq[r].result))

\* C2: when the first load of a vector file raised a CRS failure with the
\* sidecar in place and the re-read without it succeeded, the pipeline is
\* resumed at its classification stage (the load stage is not run again)
\* and the request ends with a success envelope whose report states the
\* reference system None.  (Stated as claimed, for requests whose sends all
\* succeed; the code calls process() without the dataset.)
C2_RecoveredDatasetResumes ==
    \A r \in Reqs :
        (/\ Fac(r) /\ Ended(r) /\ SendsOk(r)
         /\ Len(rq[r].reads) = 2
         /\ rq[r].reads[1].out = "CRSError" /\ rq[r].reads[1].prj
         /\ rq[r].reads[2].out = "ok")
        => /\ IsEnvelope(rq[r].result)
           /\ rq[r].result.status = "success"
           /\ Contains(rq[r].afterFail, "classify")
           /\ ~Contains(rq[r].afterFail, "load")
           /\ IsStr(DeepPayload(rq[r].result))
           /\ ContainsSeq(DeepPayload(rq[r].result).str, <<CrsLabel, "None">>)

\* The tabular file of request r loads and no coordinate assignment can be
\* found in it.
Undetectable(r) ==
    LET NoPair(file) ==
            /\ file.exists
            /\ ~Raised(file.load)
            /\ ~StagePairing(file.load.ok, StageNames(file.load.ok, None, None)).found
    IN  /\ rq[r].proc = "TabularProcessor"
        /\ rq[r].path.file \in TabFiles
        /\ NoPair(TabFile(rq[r].path.file))

\* C3: for a tabular file that loads but in which no coordinate assignment
\* can be found, create_processor returns an envelope whose top-level
\* status is 'error', whose message says that the coordinate fields are
\* undetectable, and which carries a code.  (Stated as claimed, for
\* requests whose sends all succeed.)
C3_UndetectableIsErrorWithCode ==
    \A r \in Reqs :
        (Fac(r) /\ Ended(r) /\ SendsOk(r) /\ Undetectable(r))
        => /\ IsEnvelope(rq[r].result)
           /\ rq[r].result.status = "error"
           /\ IsStr(rq[r].result.message)
           /\ \/ ContainsSeq(rq[r].result.message.str, MsgUndetectable)
              \/ Contains(rq[r].result.message.str, "cannot identify coordinate fields automatically")
           /\ "code" \in DOMAIN rq[r].result

\* C4: every message with an error status that create_processor returns,
\* at any nesting level, is a rendered Diagnostic Report (cause, findings,
\* suggestions in that order).  (Stated as claimed.)
C4_EveryErrorIsDiagnosticReport ==
    \A r \in Reqs :
        (Fac(r) /\ Ended(r) /\ IsEnvelope(rq[r].result))
        => \A env \in EnvelopesIn(rq[r].result) :
              env.status = "error" => IsDiagnosticReport(env.message)

\* C5: provided the sends of the notification channel succeed,
\* create_processor lets no exception escape: the call returns an envelope,
\* and an envelope with status 'error' whenever an exception was raised
\* while resolving the extension, constructing the processor, running its
\* pipeline or resuming after remediation.
C5_NoExceptionEscapes ==
    \A r \in Reqs :
        (Fac(r) /\ Ended(r) /\ SendsOk(r))
        => /\ IsEnvelope(rq[r].result)
           /\ rq[r].handled # << >> => rq[r].result.status = "error"

\* A request that raised while resuming after a successful remediation has
\* returned an error envelope.
C5_Witness ==
    \E r \in Reqs :
        /\ Fac(r) /\ Ended(r) /\ SendsOk(r)
        /\ Len(rq[r].handled) = 2
        /\ rq[r].handled[1].ctx = "inner" /\ rq[r].handled[2].ctx = "outer"
        /\ rq[r].handled[2].kind = "TypeError"
        /\ IsEnvelope(rq[r].result) /\ rq[r].result.status = "error"

\* C6: for every path with a supported extension at which no file exists,
\* create_processor returns an error envelope whose diagnosis has the cause
\* 'file path does not exist', for vector paths as for tabular ones.
\* (Stated as claimed, for requests whose sends all succeed.)
C6_MissingFileIsNotFound ==
    \A r \in Reqs :
        (/\ Fac(r) /\ Ended(r) /\ SendsOk(r)
         /\ rq[r].path.ext \in {".shp", ".SHP", ".csv", ".Csv", ".txt", ".xlsx", ".xls", ".XLS"}
         /\ ~FileExists(rq[r].path))
        => /\ IsEnvelope(rq[r].result)
           /\ rq[r].result.status = "error"
           /\ IsDiagnosticReport(rq[r].result.message)
           /\ CauseOf(rq[r].result.message) = CauseNotFound

\* C7: an extension that is, case-insensitively, outside {.shp, .csv, .txt,
\* .xlsx, .xls} is answered by the 'unsupported file type' diagnosis in an
\* error envelope, without a processor being constructed, a file read or
\* the filesystem touched; an extension inside the set selects the vector
\* processor for .shp and the tabular processor otherwise.
C7_ExtensionDispatch ==
    \A r \in Reqs :
        (Fac(r) /\ rq[r].pc # "idle")
        => LET isShp == rq[r].path.ext \in {".shp", ".SHP"}
               isTab == rq[r].path.ext \in {".csv", ".Csv", ".txt", ".xlsx", ".xls", ".XLS"}
           IN  /\ isShp => rq[r].proc = "ShpProcessor"
               /\ isTab => rq[r].proc = "TabularProcessor"
               /\ ~(isShp \/ isTab)
                  => /\ rq[r].proc = "none"
                     /\ rq[r].fsOps = << >> /\ rq[r].reads = << >> /\ rq[r].stages = << >>
                     /\ rq[r].handled[1] = [kind |-> "ValueError", handler |-> "ValueErrorHandler",
                                            ctx |-> "outer"]
                     /\ (Ended(r) /\ SendsOk(r))
                        => /\ IsEnvelope(rq[r].result)
                           /\ rq[r].result.status = "error"
                           /\ IsDiagnosticReport(rq[r].result.message)
                           /\ Contains(rq[r].result.message.str, "unsupported file type")

\* Both halves happen: an upper-case unsupported extension was rejected.
C7_Witness ==
    \E r \in Reqs :
        /\ Fac(r) /\ Ended(r) /\ SendsOk(r)
        /\ rq[r].path.ext = ".JSON"
        /\ IsEnvelope(rq[r].result) /\ rq[r].result.status = "error"

\* The last read of request r in the next state is a re-read made by a CRS
\* remediation in this step.
RereadNow(r) ==
    /\ Len(rq'[r].reads) = Len(rq[r].reads) + 1
    /\ rq'[r].reads[Len(rq'[r].reads)].by = "remediation"

\* C8: when CRS remediation (of the factory or of read_shp_file) runs for a
\* file whose sidecar exists, the sidecar is moved to a temporary file
\* before the re-read, and from then on no file exists at the sidecar path,
\* whether the re-read succeeds or fails: nothing moves it back.
C8_SidecarNeverRestored ==
    [][ /\ \A f \in VecFiles : f \notin prjAt => f \notin prjAt'
        /\ tmpFiles \subseteq tmpFiles'
        /\ \A f \in tmpFiles' : f \notin prjAt'
        /\ \A r \in Reqs :
              RereadNow(r)
              => /\ rq[r].path.file \notin prjAt'
                 /\ ~rq'[r].reads[Len(rq'[r].reads)].prj
                 /\ rq[r].path.file \in prjAt => rq[r].path.file \in tmpFiles'
      ]_vars

\* Remediations have moved the sidecars of a file whose re-read succeeds and
\* of one whose re-read fails, and every request has ended.
C8_Witness ==
    /\ {"stations", "broken"} \subseteq tmpFiles
    /\ \A r \in Reqs : rq[r].pc = "idle"

\* C9: when a vector load raised a CRS failure and the re-read of the
\* remediation failed too, the diagnosis produced is the terminal 'CRS
\* repair failed' report, the report handed to error() contains the text
\* of the first error and of the retry error, and with the sends of the
\* channel succeeding the request ends with an error envelope that carries
\* that report.
C9_RepairFailedReportsBoth ==
    \A r \in Reqs :
        LET IsTerminal(v, first, retry) ==
                /\ IsDiagnosticReport(v)
                /\ CauseOf(v) = CauseCRSRepairFailed
                /\ ContainsSeq(v.str, first.msg)
                /\ ContainsSeq(v.str, retry.msg)
            Holds(first, retry) ==
                /\ Len(rq[r].reports) >= 2 /\ rq[r].reports[2] = CauseCRSRepairFailed
                /\ rq[r].pc = "inner_error_send" => IsTerminal(rq[r].pending, first, retry)
                /\ rq[r].pc # "inner_error_send"
                   => \E i \in 1..Len(rq[r].sent) : IsTerminal(rq[r].sent[i].msg, first, retry)
                /\ (Ended(r) /\ SendsOk(r))
                   => /\ IsEnvelope(rq[r].result)
                      /\ rq[r].result.status = "error"
                      /\ IsTerminal(rq[r].result.message, first, retry)
        IN  (/\ Fac(r)
             /\ Len(rq[r].reads) = 2
             /\ rq[r].reads[1].out = "CRSError"
             /\ rq[r].reads[2].out # "ok")
            => Holds(gpd_read_file(rq[r].path.file, rq[r].reads[1].prj).exc,
                     gpd_read_file(rq[r].path.file, rq[r].reads[2].prj).exc)

\* A remediation whose re-read failed with a data-source error has ended in
\* the terminal report.
C9_Witness ==
    \E r \in Reqs :
        /\ Fac(r) /\ Ended(r) /\ SendsOk(r)
        /\ Len(rq[r].reads) = 2
        /\ rq[r].reads[1].out = "CRSError" /\ rq[r].reads[2].out = "DataSourceError"
        /\ IsEnvelope(rq[r].result)
        /\ CauseOf(rq[r].result.message) = CauseCRSRepairFailed

\* C10: a request reads the dataset file at most twice, and a second read
\* is the re-read of the CRS remediation after a first read that raised a
\* CRS failure.  After a first failure of any other kind there is no
\* further read and no further pipeline stage; with the sends succeeding
\* exactly one diagnosis is produced and the request is at its final send
\* or has ended.
C10_SingleRetryOnlyForCRS ==
    \A r \in Reqs :
        /\ Len(rq[r].reads) <= 2
        /\ Len(rq[r].reads) = 2
           => /\ rq[r].reads[1].by = "core" /\ rq[r].reads[1].out = "CRSError"
              /\ rq[r].reads[2].by = "remediation"
        /\ (Fac(r) /\ rq[r].handled # << >> /\ rq[r].handled[1].kind # "CRSError")
           => /\ Len(rq[r].reads) <= 1
              /\ \A i \in 1..Len(rq[r].reads) : rq[r].reads[i].by = "core"
              /\ rq[r].afterFail = << >>
              /\ SendsOk(r)
                 => /\ Len(rq[r].handled) = 1 /\ Len(rq[r].reports) = 1
                    /\ rq[r].pc \in {"inner_error_send", "outer_error_send", "done"}

\* A request whose only read raised a data-source error has ended with one
\* diagnosis.
C10_Witness ==
    \E r \in Reqs :
        /\ Fac(r) /\ Ended(r) /\ SendsOk(r)
        /\ Len(rq[r].reads) = 1 /\ rq[r].reads[1].out = "DataSourceError"
        /\ Len(rq[r].reports) = 1
        /\ rq[r].result.status = "error"

\* C11: in TabularProcessor.core, a table that has a column named
\* 'longitude' or '\u7ecf\u5ea6' gets that column as its longitude column,
\* whatever the other columns are: once coordinate inference has run, the
\* longitude reference of the request is the name of that column, also when
\* no latitude column is found by name and a statistical pair exists.
C11_NamedLongitudeKept ==
    \A r \in Reqs :
        LET Named(df) == {l \in {"longitude", "jingdu"} : HasLabel(df, l)}
            Kept(named) == named # {} => rq[r].lon_col \in {Name(l) : l \in named}
        IN  (/\ Fac(r) /\ rq[r].proc = "TabularProcessor"
             /\ \E i \in 1..Len(rq[r].stages) : rq[r].stages[i] = "infer")
                => Kept(Named(TabFile(rq[r].path.file).load.ok))

\* C12: for a headerless table (every label an auto-generated placeholder)
\* with at least two numeric columns, read through create_processor without
\* explicit columns, coordinate inference assigns position 0 as longitude
\* and position 1 as latitude, the two references select the first and the
\* second column of the table, and the request goes on to the analysis with
\* them.
C12_HeaderlessPositional ==
    \A r \in Reqs :
        LET Positional(df) ==
                (~HeaderMode(df) /\ Len(numeric_cols(df)) >= 2)
                    => /\ rq[r].lon_col = Idx(0)
                       /\ rq[r].lat_col = Idx(1)
                       /\ Locate(df, rq[r].lon_col) = 1
                       /\ Locate(df, rq[r].lat_col) = 2
                       /\ \E i \in 1..Len(rq[r].stages) : rq[r].stages[i] = "classify"
        IN  (/\ Fac(r) /\ rq[r].proc = "TabularProcessor"
             /\ \E i \in 1..Len(rq[r].stages) : rq[r].stages[i] = "infer")
                => Positional(TabFile(rq[r].path.file).load.ok)

\* C13: explicit longitude and latitude identifiers (a column name or a
\* zero-based index) given to process_geo_data_file or preset on a
\* TabularProcessor are the coordinate columns the request works with, and
\* when the file loads and the two identified columns are numeric, the
\* request ends with a success envelope whose bounding box is the min/max
\* of those two columns.
C13_ExplicitColumnsVerbatim ==
    \A r \in Reqs :
        LET \* the position of the column an identifier names (0: none)
            At(df, ref) ==
                IF IsIdx(ref) THEN (IF ref.idx < Len(df.cols) THEN ref.idx + 1 ELSE 0)
                ELSE Locate(df, ref)
            Numeric(df, pos) == pos # 0 /\ df.cols[pos].dtype \in {"int64", "float64", "float32"}
            Box(lonc, latc) ==
                /\ "status" \in DOMAIN rq[r].result
                /\ rq[r].result.status = "success"
                /\ ContainsSeq(DeepPayload(rq[r].result).str,
                               <<"lon:", Fmt(SeriesMin(lonc.vals)), "~", Fmt(SeriesMax(lonc.vals))>>)
                /\ ContainsSeq(DeepPayload(rq[r].result).str,
                               <<"lat:", Fmt(SeriesMin(latc.vals)), "~", Fmt(SeriesMax(latc.vals))>>)
            Used(df, lon, lat) ==
                (Numeric(df, At(df, lon)) /\ Numeric(df, At(df, lat)))
                    => /\ rq[r].lon_col = lon /\ rq[r].lat_col = lat
                       /\ Box(df.cols[At(df, lon)], df.cols[At(df, lat)])
            Loadable(file) ==
                (file.exists /\ ~Raised(file.load) /\ ExtOf(rq[r].path) \in TabularExtensions)
                    => Used(file.load.ok, rq[r].given[1], rq[r].given[2])
        IN  (/\ rq[r].entry \in {"geo", "processor"} /\ Ended(r) /\ SendsOk(r)
             /\ ~IsNone(rq[r].given[1]) /\ ~IsNone(rq[r].given[2]))
                => Loadable(TabFile(rq[r].path.file))

\* C14: a TabularProcessor request reaches the analysis (bounding box,
\* field classification, report) only if both coordinate references select
\* a column that pd.to_numeric converted; if the conversion of either one
\* fails, no field is classified, the message that core sends names the
\* first offending column and its axis, and, the sends succeeding, the
\* request ends with the error envelope of that message.
C14_AnalysisOnlyAfterCoercion ==
    \A r \in Reqs :
        LET Coerced(df, ref) == Locate(df, ref) # 0 /\ ~Raised(to_numeric(df.cols[Locate(df, ref)]))
            Ran(stage) == \E i \in 1..Len(rq[r].stages) : rq[r].stages[i] = stage
            Msg(df) ==
                IF ~Coerced(df, rq[r].lon_col) THEN Str(MsgNonNumeric("longitude", rq[r].lon_col))
                ELSE Str(MsgNonNumeric("latitude", rq[r].lat_col))
            Failed(msg) ==
                /\ ~Ran("classify") /\ ~Ran("summarize") /\ ~Ran("report")
                /\ IF rq[r].sent = << >> THEN rq[r].pending = msg ELSE rq[r].sent[1].msg = msg
                /\ (Ended(r) /\ SendsOk(r))
                      => /\ IsEnvelope(rq[r].result)
                         /\ \E env \in EnvelopesIn(rq[r].result) :
                               env = ErrorEnvelope(msg)
            Checked(df) ==
                IF Coerced(df, rq[r].lon_col) /\ Coerced(df, rq[r].lat_col)
                THEN Ran("classify")
                ELSE Failed(Msg(df))
        IN  (rq[r].proc = "TabularProcessor" /\ Ran("validate"))
                => Checked(TabFile(rq[r].path.file).load.ok)

\* A request whose longitude column holds text that is not a number has
\* ended with the error envelope that names it.
C14_Witness ==
    \E r \in Reqs :
        /\ Ended(r) /\ SendsOk(r) /\ rq[r].path.file = "badlon"
        /\ rq[r].lon_col = Name("lon")
        /\ DeepPayload(rq[r].result) = Str(MsgNonNumeric("longitude", Name("lon")))
        /\ \A i \in 1..Len(rq[r].stages) : rq[r].stages[i] # "classify"

\* C15: every classifier returns 'Short Integer' for a column of integer
\* storage whose minimum is at least -32768 and whose maximum is at most
\* 32767, and 'Long Integer' when the minimum is -32769 or the maximum is
\* 32768.
C15_ShortLongBounds ==
    \A r \in Reqs :
        LET Bounds(t, lo, hi) ==
                /\ (-32768 <= lo /\ hi <= 32767)
                      => (t.tools = Ok("Short Integer") /\ t.geo = Ok("Short Integer"))
                /\ (lo = -32769 \/ hi = 32768)
                      => (t.tools = Ok("Long Integer") /\ t.geo = Ok("Long Integer"))
            Classified(col, t) ==
                (col.dtype = "int64" /\ col.vals # << >>)
                    => Bounds(t, SeriesMin(col.vals).num, SeriesMax(col.vals).num)
        IN  (rq[r].entry = "field" /\ rq[r].result.types # << >>)
                => Classified(rq[r].result.data[1], rq[r].result.types[1])

\* C16: the report line of a column classified as Text lists its distinct
\* non-missing values when there are at most 3 of them in the tabular
\* processor and at most 5 in the vector processor, and gives only their
\* number when there are more.
C16_TextValuesUpToThreshold ==
    \A r \in Reqs :
        LET Line(name, u, limit) ==
                IF Len(u) <= limit
                THEN <<"text field", name, "values">> \o [i \in 1..Len(u) |-> ValText(u[i])]
                ELSE <<"text field", name, "unique count", ToString(Len(u))>>
            Listed(col, u, sm) ==
                /\ sm.tabLines = Ok(<< Line(col.name, u, 3) >>)
                /\ sm.shpLines = Ok(<< Line(col.name, u, 5) >>)
            Text(col, t, sm) ==
                t.tools = Ok("Text") => Listed(col, unique(dropna(col.vals)), sm)
        IN  (rq[r].entry = "field" /\ rq[r].result.summaries # << >>)
                => Text(rq[r].held, rq[r].result.types[1], rq[r].result.summaries[1])

\* A text column with five distinct values has been summarised: the vector
\* line lists the five values, the tabular line gives the number 5.
C16_Witness ==
    \E r \in Reqs :
        /\ rq[r].entry = "field" /\ rq[r].result.summaries # << >>
        /\ rq[r].result.types[1].tools = Ok("Text")
        /\ Len(unique(dropna(rq[r].held.vals))) = 5
        /\ rq[r].result.summaries[1].shpLines =
              Ok(<< <<"text field", rq[r].held.name, "values", "a", "b", "c", "d", "e">> >>)
        /\ rq[r].result.summaries[1].tabLines =
              Ok(<< <<"text field", rq[r].held.name, "unique count", "5">> >>)

\* C17: in the tabular and in the vector field loop, a column whose
\* lower-cased name is id, fid, oid or objectid gets no entry in the generic
\* field report and is recorded as a system field with the number of its
\* distinct values, whatever its storage kind.
C17_IdentifierColumnsAreSystemFields ==
    \A r \in Reqs :
        LET System(col, sm) ==
                /\ ~Raised(sm.tab)
                      => /\ sm.tab.ok.fields = << >>
                         /\ Len(sm.tab.ok.system_fields) = 1
                         /\ sm.tab.ok.system_fields[1].name = col.name
                         /\ sm.tab.ok.system_fields[1].count = Len(unique(col.vals))
                /\ ~Raised(sm.shp)
                      => /\ sm.shp.ok.fields = << >>
                         /\ Len(sm.shp.ok.ObjectID) = 1
                         /\ sm.shp.ok.ObjectID[1].count = Len(unique(col.vals))
            Identifier(col, sm) ==
                LowerTok(col.name) \in {"id", "fid", "oid", "objectid"} => System(col, sm)
        IN  (rq[r].entry = "field" /\ rq[r].result.summaries # << >>)
                => Identifier(rq[r].held, rq[r].result.summaries[1])

C20_AtMostOneHandlerMatches ==
    \A r \in Reqs : \A i \in 1..Len(rq[r].handled) :
        LET Unique(h, hits) ==
                /\ Cardinality(hits) <= 1
                /\ hits = {} => h.handler = "BaseErrorHandler"
                /\ \A k \in hits : h.handler = HANDLERS[k].handler
        IN  Unique(rq[r].handled[i],
                   {k \in 1..Len(HANDLERS) : IsInstance(rq[r].handled[i], HANDLERS[k].types)})

\* C18: a send that fails is not attempted again and does not change the
\* outcome of a create_processor request: the failure is not handed to an
\* error handler, and the request ends with the envelope it holds for the
\* caller, a success envelope when no stage of the pipeline failed.
C18_SendFailureChangesNothing ==
    \A r \in Reqs :
        LET NoRetry ==
                \A i, j \in 1..Len(rq[r].sent) :
                    (i < j /\ ~rq[r].sent[i].ok) => rq[r].sent[j].msg # rq[r].sent[i].msg
            Unchanged ==
                /\ rq[r].exc # SendError
                /\ Ended(r)
                      => /\ IsEnvelope(rq[r].result)
                         /\ (\A i \in 1..Len(rq[r].handled) : rq[r].handled[i].kind # SendError.kind)
                         /\ (rq[r].handled = << >> => rq[r].result.status = "success")
        IN  Fac(r) => (NoRetry /\ Unchanged)

\* C21: when the statistical pairing runs, its candidate set is exactly the
\* set of pairs <<lonCol, latCol>> of numeric columns that are neighbours by
\* column position (or carry consecutive digit names), with more than 95%
\* of lonCol's non-missing values inside [73.66, 135.05] and more than 95%
\* of latCol's inside [18.15, 53.55], whatever the columns are named.
C21_CandidatesAreAdjacentQualifyingPairs ==
    \A r \in Reqs :
        LET Numeric(df, i) == df.cols[i].dtype \in {"int64", "float64", "float32"}
            Lon(df, i) == Qualifies(dropna(df.cols[i].vals), ChinaLonMin, ChinaLonMax)
            Lat(df, i) == Qualifies(dropna(df.cols[i].vals), ChinaLatMin, ChinaLatMax)
            Neighbours(df, i, j) ==
                \/ i + 1 = j \/ j + 1 = i
                \/ is_adjacent(df.cols[i].name, df.cols[j].name)
                \/ is_adjacent(df.cols[j].name, df.cols[i].name)
            Expected(df) ==
                {<<df.cols[i].name, df.cols[j].name>> : <<i, j>> \in
                    {p \in (1..Len(df.cols)) \X (1..Len(df.cols)) :
                        /\ Numeric(df, p[1]) /\ Numeric(df, p[2]) /\ Neighbours(df, p[1], p[2])
                        /\ Lon(df, p[1]) /\ Lat(df, p[2])}}
            Found(pairs) == {pairs[k] : k \in 1..Len(pairs)}
            Paired(df, refs) ==
                (IsNone(refs.lon) \/ IsNone(refs.lat))
                    => Found(candidate_pairs(df, numeric_cols(df), 1)) = Expected(df)
            Table(df) == Paired(df, StageNames(df, rq[r].given[1], rq[r].given[2]))
        IN  (/\ rq[r].proc = "TabularProcessor"
             /\ \E i \in 1..Len(rq[r].stages) : rq[r].stages[i] = "infer")
                => Table(TabFile(rq[r].path.file).load.ok)

\* C22: when the candidate set is not empty, the pair assigned is the
\* candidate with the largest sum of the two in-range fractions, taken over
\* the non-missing values as in the qualification; among candidates with
\* equal sums it is the first one.
C22_BestPairMaximisesQualifyingFractions ==
    \A r \in Reqs :
        LET In(df, l, lo, hi) == InRange(dropna(ColOf(df, l).vals), lo, hi)
            N(df, l) == Len(dropna(ColOf(df, l).vals))
            \* the sum of the two fractions of pair p as numerator and denominator
            Num2(df, p) == In(df, p[1], ChinaLonMin, ChinaLonMax) * N(df, p[2])
                           + In(df, p[2], ChinaLatMin, ChinaLatMax) * N(df, p[1])
            Den2(df, p) == N(df, p[1]) * N(df, p[2])
            Less(df, p, q) == Num2(df, p) * Den2(df, q) < Num2(df, q) * Den2(df, p)
            Best(df, pairs) ==
                pairs[CHOOSE i \in 1..Len(pairs) :
                        /\ \A j \in 1..Len(pairs) : ~Less(df, pairs[i], pairs[j])
                        /\ \A j \in 1..(i - 1) : Less(df, pairs[j], pairs[i])]
            Selected(df, pairs) ==
                pairs # << >>
                    => <<rq[r].lon_col, rq[r].lat_col>>
                         = <<Name(Best(df, pairs)[1]), Name(Best(df, pairs)[2])>>
            Paired(df, refs) ==
                (IsNone(refs.lon) \/ IsNone(refs.lat))
                    => Selected(df, candidate_pairs(df, numeric_cols(df), 1))
            Table(df) == Paired(df, StageNames(df, rq[r].given[1], rq[r].given[2]))
        IN  (/\ rq[r].proc = "TabularProcessor"
             /\ \E i \in 1..Len(rq[r].stages) : rq[r].stages[i] = "infer")
                => Table(TabFile(rq[r].path.file).load.ok)

\* C23: the date rule comes first in both classifiers: a column of any
\* storage kind that has a non-missing value and whose non-missing values
\* are all dates or date strings is classified as Date by the classifier
\* of the tools module and by the classifier of the vector module.
C23_DateRuleFirst ==
    \A r \in Reqs :
        LET IsDateLike(v) == IsDate(v) \/ (IsS(v) /\ v.str = "2020-01-01")
            AllDates(vs) == vs # << >> /\ \A i \in 1..Len(vs) : IsDateLike(vs[i])
            Classified(col, t) ==
                AllDates(dropna(col.vals)) => (t.tools = Ok("Date") /\ t.geo = Ok("Date"))
        IN  (rq[r].entry = "field" /\ rq[r].result.types # << >>)
                => Classified(rq[r].result.data[1], rq[r].result.types[1])

\* C24: in the tabular pipeline an object column that has a non-missing
\* value and whose non-missing values are all strings is classified as
\* Text and recorded as a text field, whether or not it has missing
\* values and however long its values are.
C24_TabularStringsAreText ==
    \A r \in Reqs :
        LET Strings(vs) == vs # << >> /\ \A i \in 1..Len(vs) : IsS(vs[i])
            Recorded(col, sm) ==
                /\ ~Raised(sm.tab)
                /\ Len(sm.tab.ok.fields) = 1
                /\ sm.tab.ok.fields[1].stats = TextStats(col, TabularSampleLimit)
            Text(col, t, sms) ==
                (col.dtype = "object" /\ Strings(dropna(col.vals)))
                    => /\ t.tools = Ok("Text")
                       /\ \A i \in 1..Len(sms) : Recorded(col, sms[i])
        IN  (rq[r].entry = "field" /\ rq[r].result.types # << >>)
                => Text(rq[r].result.data[1], rq[r].result.types[1], rq[r].result.summaries)

\* C25: for a column without rows and for a column whose values are all
\* missing, of any storage kind, both classifiers return Unknown and raise
\* nothing.
C25_EmptyColumnsAreUnknown ==
    \A r \in Reqs :
        LET Tolerated(col, t) ==
                dropna(col.vals) = << >>
                    => (t.tools = Ok("Unknown") /\ t.geo = Ok("Unknown"))
        IN  (rq[r].entry = "field" /\ rq[r].result.types # << >>)
                => Tolerated(rq[r].result.data[1], rq[r].result.types[1])

\* C26: in a tabular request that built its report, no entry of the
\* analysis is about a coordinate column, every other column of the table
\* has exactly one entry (a field entry or a system-field entry), and the
\* number of entries is the number of columns minus two.
C26_OneEntryPerAttributeColumn ==
    \A r \in Reqs :
        LET Entries(attrs, name) ==
                Cardinality({i \in 1..Len(attrs.fields) : attrs.fields[i].name = name})
                + Cardinality({i \in 1..Len(attrs.system_fields) :
                                  attrs.system_fields[i].name = name})
            Counted(df, attrs, coords) ==
                /\ \A i \in 1..Len(df.cols) :
                      Entries(attrs, df.cols[i].name)
                          = IF Name(df.cols[i].name) \in coords THEN 0 ELSE 1
                /\ Len(attrs.fields) + Len(attrs.system_fields) = Len(df.cols) - 2
        IN  (rq[r].proc = "TabularProcessor" /\ HasKey(rq[r].held, "analysis"))
                => Counted(TabFile(rq[r].path.file).load.ok,
                           rq[r].held.analysis.attributes,
                           {rq[r].lon_col, rq[r].lat_col})

\* A table with two attribute columns besides its coordinates has been
\* reported with two entries.
C26_Witness ==
    \E r \in Reqs :
        /\ rq[r].proc = "TabularProcessor" /\ HasKey(rq[r].held, "analysis")
        /\ Len(TabFile(rq[r].path.file).load.ok.cols) = 4
        /\ Len(rq[r].held.analysis.attributes.fields)
             + Len(rq[r].held.analysis.attributes.system_fields) = 2
        /\ \E i \in 1..Len(rq[r].sent) : rq[r].sent[i].ok

\* C27: a tabular request runs the stages load, coordinate assignment
\* (inference and validation), classification, summary and report in that
\* order, without skipping one or running one again; the file is loaded
\* only after the extension and existence checks; no stage runs after a
\* failure; and the request ends in exactly one of the two terminal
\* states: once its report has been delivered it does not fail, and a
\* request that has ended has either delivered its report or failed.
C27_StagesInOrderOneTerminalState ==
    \A r \in Reqs :
        LET Pipeline == <<"load", "infer", "validate", "classify", "summarize", "report">>
            InOrder(st) == Len(st) <= Len(Pipeline) /\ st = SubSeq(Pipeline, 1, Len(st))
            ChecksFirst(s) ==
                s.stages # << >>
                    => /\ ExtOf(s.path) \in TabularExtensions
                       /\ s.fsOps # << >> /\ s.fsOps[1] = "exists"
            Reported(s) ==
                /\ HasKey(s.held, "analysis")
                /\ \E i \in 1..Len(s.sent) :
                      s.sent[i].ok /\ s.sent[i].msg = Str(s.held.result_msg)
            Failed(s) ==
                \/ s.handled # << >>
                \/ HasKey(s.result, "raised")
                \/ IsEnvelope(s.result) /\ \E e \in EnvelopesIn(s.result) : e.status = "error"
            Staged(s) ==
                /\ InOrder(s.stages)
                /\ ChecksFirst(s)
                /\ s.afterFail = << >>
                /\ ~s.sendFailed => ~(Reported(s) /\ Failed(s))
                /\ s.pc = "done" => (Reported(s) \/ Failed(s))
        IN  rq[r].proc = "TabularProcessor" => Staged(rq[r])

\* C28: the report rendered for a ValueError depends on its reason code
\* alone: the messages "1", "2" and "3" get the three coded diagnoses, and
\* a ValueError with any other message gets the generic diagnosis whose
\* finding is its own message.
C28_DiagnosisByReasonCodeAlone ==
    \A r \in Reqs :
        LET Generic(e) ==
                [cause |-> CauseValue, findings |-> << Lower(e.msg) >>,
                 suggestions |-> << <<"check that the value is valid">> >>]
            ByCode(e) ==
                IF e.msg \in {<<"1">>, <<"2">>, <<"3">>} THEN ValueErrorInfo(e) ELSE Generic(e)
            Diagnosed(s) ==
                (/\ s.pc \in {"inner_error_send", "outer_error_send"}
                 /\ s.exc.kind = "ValueError"
                 /\ s.handled[Len(s.handled)].handler = "ValueErrorHandler")
                    => s.pending = Str(RenderSections(ByCode(s.exc)))
        IN  rq[r].handled # << >> => Diagnosed(rq[r])

\* C29: a request of the dispatcher whose field loop ran to its end over a
\* table with a column that is neither a coordinate nor the geometry, that
\* the classifier calls BLOB or Unknown and whose name is not a
\* system-field name, stores that column with an empty stats block; the
\* report is not produced (KeyError 'type' while rendering) and, the sends
\* succeeding, the request returns an error envelope with the 'unknown
\* error' diagnosis.  This holds for the tabular and the vector processor.
C29_UnsupportedColumnEndsInUnknownError ==
    \A r \in Reqs :
        LET Unsupported(col, system) ==
                /\ col.name # "geometry"
                /\ Name(col.name) \notin {rq[r].lon_col, rq[r].lat_col}
                /\ LowerTok(col.name) \notin system
                /\ classify_field_type(col.dtype, col.vals) \in {Ok("BLOB"), Ok("Unknown")}
            Has(cols, system) == \E i \in 1..Len(cols) : Unsupported(cols[i], system)
            Table(s) ==
                IF s.proc = "ShpProcessor"
                THEN Has(VecFile(s.path.file).data.ok.cols, {"fid", "objectid"})
                ELSE Has(TabFile(s.path.file).load.ok.cols, {"id", "fid", "oid"})
            Ends(s) ==
                /\ s.exc = Exc("KeyError", <<"type">>)
                /\ ~HasKey(s.held, "result_msg")
                /\ s.pc = "done"
                      => /\ s.result = ErrorEnvelope(s.result.message)
                         /\ IsDiagnosticReport(s.result.message)
                         /\ CauseOf(s.result.message) = CauseUnknown
            Looped(s) == \E i \in 1..Len(s.stages) : s.stages[i] = "summarize"
        IN  (Fac(r) /\ SendsOk(r) /\ Looped(rq[r]) /\ Table(rq[r])) => Ends(rq[r])

\* A tabular request over a table with a column of long texts has ended
\* with the 'unknown error' envelope, nothing but the error report sent.
C29_Witness ==
    \E r \in Reqs :
        /\ Fac(r) /\ SendsOk(r) /\ Ended(r)
        /\ rq[r].proc = "TabularProcessor" /\ rq[r].path.file = "memo"
        /\ rq[r].exc = Exc("KeyError", <<"type">>)
        /\ rq[r].result.status = "error"
        /\ CauseOf(rq[r].result.message) = CauseUnknown
        /\ Len(rq[r].sent) = 1

\* C30: with requests for the same vector file interleaving at their
\* sends, the existence check of the sidecar and its move are one step:
\* a request moves the sidecar only in a step at whose start the sidecar
\* is in place and after which it is gone for good, so at most one of the
\* requests in flight has moved it and none moves a sidecar already moved;
\* and every re-read of the remediation is made without the sidecar.
C30_SidecarCheckAndMoveAreOneStep ==
    [][LET Count(ops, op) == Cardinality({i \in 1..Len(ops) : ops[i] = op})
           Movers(q, f) == {r \in Reqs : q[r].path.file = f /\ Count(q[r].fsOps, "move") > 0}
           Rereads(s) == {i \in 1..Len(s.reads) : s.reads[i].by = "remediation"}
           \* the requests in flight, the sidecars in place and moved after the step
           After(q, prj, tmp) ==
               /\ \A f \in VecFiles :
                     /\ Cardinality(Movers(q, f)) <= 1
                     /\ Movers(q, f) # {} => (f \notin prj /\ f \in tmp)
               /\ \A r \in Reqs : \A i \in Rereads(q[r]) : ~q[r].reads[i].prj
           \* request r moves the sidecar in the step
           Moves(r) == Count(rq'[r].fsOps, "move") > Count(rq[r].fsOps, "move")
       IN  /\ After(rq', prjAt', tmpFiles')
           /\ prjAt' \subseteq prjAt
           /\ \A r \in Reqs :
                 Moves(r) => /\ rq[r].path.file \in prjAt
                             /\ rq[r].path.file \notin tmpFiles
                             /\ prjAt' = prjAt \ {rq[r].path.file}]_vars

\* Two requests for stations.shp have both run the remediation: one moved
\* the sidecar, the other found it gone and moved nothing, and both read
\* the file again.
C30_Witness ==
    \E r, q \in Reqs :
        /\ r # q
        /\ rq[r].path.file = "stations" /\ rq[q].path.file = "stations"
        /\ \E i \in 1..Len(rq[r].fsOps) : rq[r].fsOps[i] = "move"
        /\ \A i \in 1..Len(rq[q].fsOps) : rq[q].fsOps[i] # "move"
        /\ \E i \in 1..Len(rq[r].reads) : rq[r].reads[i].by = "remediation"
        /\ \E i \in 1..Len(rq[q].reads) : rq[q].reads[i].by = "remediation"
        /\ rq[q].reads[1].prj

====
